---- MODULE Spec2Model ----
(***************************************************************************)
(* Media-backed record lifecycle of the CyberWhisper backend: the gallery  *)
(* routes (upload, replace image, remove) running against the object store *)
(* (Cloudinary) and the record store (table gallery_cw).                   *)
(*                                                                         *)
(* Every request is a chain of awaited I/O calls.  One action models one   *)
(* awaited call together with the synchronous code that follows it up to   *)
(* the next await, so requests interleave exactly at their awaits.         *)
(***************************************************************************)
EXTENDS Integers, Sequences, FiniteSets, TLC

\* Number of concurrent requests the model runs.
NumReq == 2

Reqs == 1..NumReq

\* Errors a database statement can be rejected with.
DbErrors == {"db_constraint", "db_unavailable"}

\* Public id "" (falsy in the handlers' guards): a record without an asset.
NoHandle == 0

\* secure_url Cloudinary returns together with public_id h.
UrlOf(h) == 1000 + h

\* The "no row" value: rows[0] of an empty result, or null.
NoRow == [id |-> 0, image_url |-> 0, public_id |-> NoHandle]

VARIABLES
  rows,        \* gallery_cw: id -> [id, image_url, public_id]
  blobs,       \* public ids of the blobs the object store holds
  nextId,      \* next value of the BIGSERIAL id
  nextHandle,  \* next public id the object store hands out
  req,         \* per request: kind, pc, locals of the handler, response
  calls        \* per request: the store calls it has made, in order

vars == <<rows, blobs, nextId, nextHandle, req, calls>>

\* A request slot before any request has arrived on it.
IdleReq ==
  [kind |-> "none", pc |-> "idle", id |-> 0, deleteFromCloudinary |-> FALSE,
   galleryImage |-> NoRow, uploadResult |-> [success |-> FALSE, publicId |-> NoHandle, url |-> 0],
   error |-> "none", status |-> "none", data |-> NoRow]

\* Tables the service can find at start-up: empty, one record bound to a
\* blob (left by an earlier upload), or one record without an asset.
InitTables ==
  { [rows |-> [i \in {} |-> NoRow], blobs |-> {}],
    [rows |-> [i \in {1} |-> [id |-> 1, image_url |-> UrlOf(1), public_id |-> 1]],
     blobs |-> {1}],
    [rows |-> [i \in {1} |-> [id |-> 1, image_url |-> UrlOf(NoHandle), public_id |-> NoHandle]],
     blobs |-> {}] }

Init ==
  \E t \in InitTables :
    /\ rows = t.rows
    /\ blobs = t.blobs
    /\ nextId = Cardinality(DOMAIN t.rows) + 1
    /\ nextHandle = Cardinality(t.blobs) + 1
    /\ req = [r \in Reqs |-> IdleReq]
    /\ calls = [r \in Reqs |-> <<>>]

----------------------------------------------------------------------------
\* Helpers

\* One entry of a request's call log: the store call, its argument (a public
\* id or a row id) and its result: "ok" (it took effect), "none" (no row),
\* "failed" (the object store did not do it), or the error a statement threw.
Call(op, arg, res) == [op |-> op, arg |-> arg, res |-> res]

Log(r, c) == [calls EXCEPT ![r] = Append(@, c)]

\* res.status(...).json(...) / res.json(...): the handler has answered.
Respond(r, st, row) ==
  [req EXCEPT ![r] = [@ EXCEPT !.pc = "done", !.status = st, !.data = row]]

\* The handler's promise rejects with error e (asyncHandler forwards it).
Throw(r, e) ==
  [req EXCEPT ![r] = [@ EXCEPT !.pc = "done", !.status = "throw", !.error = e]]

----------------------------------------------------------------------------
\* Object store client (utils/imageUpload)

\* Outcomes of cloudinary.uploader.upload.
UploadOutcomes == {"ok", "throw"}

\* Outcomes of cloudinary.uploader.destroy(publicId): 'ok' removes an
\* existing blob, 'not found' answers for an absent one, or the call throws.
DestroyOutcomes(publicId) ==
  IF publicId \in blobs THEN {"ok", "throw"} ELSE {"not found", "throw"}

\* uploadImageToCloudinary: the ImageUploadResponse and the store afterwards.
\* A throwing upload is caught and turned into success: false.
uploadImageToCloudinary(o) ==
  IF o = "ok"
  THEN [result |-> [success |-> TRUE, publicId |-> nextHandle, url |-> UrlOf(nextHandle)],
        blobs |-> blobs \cup {nextHandle}, nextHandle |-> nextHandle + 1]
  ELSE [result |-> [success |-> FALSE, publicId |-> NoHandle, url |-> 0],
        blobs |-> blobs, nextHandle |-> nextHandle]

\* deleteImageFromCloudinary without its try/catch: an error of destroy
\* reaches the caller.
deleteImageFromCloudinary_Rethrows(publicId, o) ==
  [ret |-> (o = "ok"), threw |-> (o = "throw"),
   blobs |-> IF o = "ok" THEN blobs \ {publicId} ELSE blobs]

\* deleteImageFromCloudinary: result.result === 'ok', or false when destroy
\* throws (the error is caught and logged, never rethrown).
deleteImageFromCloudinary(publicId, o) ==
  [ret |-> (o = "ok"), threw |-> FALSE,
   blobs |-> IF o = "ok" THEN blobs \ {publicId} ELSE blobs]

\* Log entry of a deleteImageFromCloudinary call.
DestroyCall(publicId, d) ==
  Call("destroy", publicId, IF d.ret THEN "ok" ELSE "failed")

----------------------------------------------------------------------------
\* Record store (GalleryRepository and the inline UPDATE)

\* GalleryRepository.getGalleryImageById: rows[0] || null.
getGalleryImageById(id) == IF id \in DOMAIN rows THEN rows[id] ELSE NoRow

\* createGalleryImage with the VALUES list misaligned: public_id is not stored.
createGalleryImage_DropsPublicId(imageUrl, publicId) ==
  [id |-> nextId, image_url |-> imageUrl, public_id |-> NoHandle]

\* GalleryRepository.createGalleryImage: INSERT ... RETURNING *.
createGalleryImage(imageUrl, publicId) ==
  [id |-> nextId, image_url |-> imageUrl, public_id |-> publicId]

\* gallery_cw after the INSERT of row.
InsertRow(row) == [i \in DOMAIN rows \cup {row.id} |-> IF i = row.id THEN row ELSE rows[i]]

\* The UPDATE without public_id = $2: only image_url is set.
UpdateImage_KeepsPublicId(url, publicId, id) ==
  IF id \in DOMAIN rows
  THEN [rows EXCEPT ![id] = [@ EXCEPT !.image_url = url]]
  ELSE rows

\* UPDATE gallery_cw SET image_url = $1, public_id = $2 WHERE id = $3.
UpdateImage(url, publicId, id) ==
  IF id \in DOMAIN rows
  THEN [rows EXCEPT ![id] = [@ EXCEPT !.image_url = url, !.public_id = publicId]]
  ELSE rows

\* deleteGalleryImage whose DELETE matches by public_id instead of id.
DeleteRow_ByPublicId(id) ==
  [i \in {j \in DOMAIN rows : rows[j].public_id # id} |-> rows[i]]

\* GalleryRepository.deleteGalleryImage: DELETE FROM gallery_cw WHERE id = $1.
DeleteRow(id) == [i \in DOMAIN rows \ {id} |-> rows[i]]

----------------------------------------------------------------------------
\* POST /api/gallery/upload

\* Request arrives; multer and the title check run before the first await.
GalleryUploadBegin(r) ==
  /\ req[r].pc = "idle"
  /\ \E hasFile \in BOOLEAN, hasTitle \in BOOLEAN :
       req' = IF ~hasFile \/ ~hasTitle
              THEN [Respond(r, "400", NoRow) EXCEPT ![r].kind = "upload"]
              ELSE [req EXCEPT ![r] = [@ EXCEPT !.kind = "upload", !.pc = "c_upload"]]
  /\ UNCHANGED <<rows, blobs, nextId, nextHandle, calls>>

\* GalleryUploadCloud without the return after res.status(500): the handler
\* goes on to the insert although the upload failed.
GalleryUploadCloud_NoReturn(r) ==
  /\ req[r].pc = "c_upload"
  /\ \E o \in UploadOutcomes :
       LET u == uploadImageToCloudinary(o) IN
       /\ blobs' = u.blobs
       /\ nextHandle' = u.nextHandle
       /\ calls' = Log(r, Call("upload", u.result.publicId, IF u.result.success THEN "ok" ELSE "failed"))
       /\ req' = [req EXCEPT ![r] = [@ EXCEPT !.pc = "c_insert", !.uploadResult = u.result,
                                              !.status = IF u.result.success THEN "none" ELSE "500"]]
  /\ UNCHANGED <<rows, nextId>>

\* await uploadImageToCloudinary(dataURI, 'gallery'); 500 when it failed.
GalleryUploadCloud(r) ==
  /\ req[r].pc = "c_upload"
  /\ \E o \in UploadOutcomes :
       LET u == uploadImageToCloudinary(o) IN
       /\ blobs' = u.blobs
       /\ nextHandle' = u.nextHandle
       /\ calls' = Log(r, Call("upload", u.result.publicId, IF u.result.success THEN "ok" ELSE "failed"))
       /\ req' = IF ~u.result.success
                 THEN Respond(r, "500", NoRow)
                 ELSE [req EXCEPT ![r] = [@ EXCEPT !.pc = "c_insert", !.uploadResult = u.result]]
  /\ UNCHANGED <<rows, nextId>>

\* GalleryUploadInsert without its catch block: the insert error leaves the
\* handler at once and the uploaded blob is never deleted.
GalleryUploadInsert_NoCompensate(r) ==
  /\ req[r].pc = "c_insert"
  /\ \/ LET row == createGalleryImage(req[r].uploadResult.url, req[r].uploadResult.publicId) IN
        /\ rows' = InsertRow(row)
        /\ nextId' = nextId + 1
        /\ calls' = Log(r, Call("insert", row.id, "ok"))
        /\ req' = Respond(r, "201", row)
     \/ \E e \in DbErrors :
        /\ calls' = Log(r, Call("insert", 0, e))
        /\ req' = Throw(r, e)
        /\ UNCHANGED <<rows, nextId>>
  /\ UNCHANGED <<blobs, nextHandle>>

\* await GalleryRepository.createGalleryImage(...): 201 with the row, or the
\* catch block is entered with the insert error.
GalleryUploadInsert(r) ==
  /\ req[r].pc = "c_insert"
  /\ \/ LET row == createGalleryImage(req[r].uploadResult.url, req[r].uploadResult.publicId) IN
        /\ rows' = InsertRow(row)
        /\ nextId' = nextId + 1
        /\ calls' = Log(r, Call("insert", row.id, "ok"))
        /\ req' = Respond(r, "201", row)
     \/ \E e \in DbErrors :
        /\ calls' = Log(r, Call("insert", 0, e))
        /\ req' = IF req[r].uploadResult.publicId # NoHandle
                  THEN [req EXCEPT ![r] = [@ EXCEPT !.pc = "c_compensate", !.error = e]]
                  ELSE Throw(r, e)
        /\ UNCHANGED <<rows, nextId>>
  /\ UNCHANGED <<blobs, nextHandle>>

\* catch: await deleteImageFromCloudinary(uploadResult.publicId); throw error.
GalleryUploadCompensate(r) ==
  /\ req[r].pc = "c_compensate"
  /\ \E o \in DestroyOutcomes(req[r].uploadResult.publicId) :
       LET d == deleteImageFromCloudinary(req[r].uploadResult.publicId, o) IN
       /\ blobs' = d.blobs
       /\ calls' = Log(r, DestroyCall(req[r].uploadResult.publicId, d))
       /\ req' = IF d.threw THEN Throw(r, "cloudinary_error") ELSE Throw(r, req[r].error)
  /\ UNCHANGED <<rows, nextId, nextHandle>>

----------------------------------------------------------------------------
\* POST /api/gallery/:id/image

\* Ids a request can name: every id handed out so far and one never used.
RequestIds == 1..nextId

\* Request arrives; 400 without a file, else the record is looked up.
ReplaceImageBegin(r) ==
  /\ req[r].pc = "idle"
  /\ \E hasFile \in BOOLEAN, id \in RequestIds :
       req' = IF ~hasFile
              THEN [Respond(r, "400", NoRow) EXCEPT ![r].kind = "replace", ![r].id = id]
              ELSE [req EXCEPT ![r] = [@ EXCEPT !.kind = "replace", !.id = id, !.pc = "r_load"]]
  /\ UNCHANGED <<rows, blobs, nextId, nextHandle, calls>>

\* await GalleryRepository.getGalleryImageById(id); 404 when absent.
ReplaceImageLoad(r) ==
  /\ req[r].pc = "r_load"
  /\ \/ LET galleryImage == getGalleryImageById(req[r].id) IN
        /\ calls' = Log(r, Call("load", req[r].id, IF galleryImage = NoRow THEN "none" ELSE "ok"))
        /\ req' = IF galleryImage = NoRow
                  THEN Respond(r, "404", NoRow)
                  ELSE [req EXCEPT ![r] = [@ EXCEPT !.pc = "r_upload", !.galleryImage = galleryImage]]
     \/ \E e \in DbErrors :
        /\ calls' = Log(r, Call("load", req[r].id, e))
        /\ req' = Throw(r, e)
  /\ UNCHANGED <<rows, blobs, nextId, nextHandle>>

\* await uploadImageToCloudinary(dataURI, 'gallery'); 500 when it failed.
ReplaceImageCloud(r) ==
  /\ req[r].pc = "r_upload"
  /\ \E o \in UploadOutcomes :
       LET u == uploadImageToCloudinary(o) IN
       /\ blobs' = u.blobs
       /\ nextHandle' = u.nextHandle
       /\ calls' = Log(r, Call("upload", u.result.publicId, IF u.result.success THEN "ok" ELSE "failed"))
       /\ req' = IF ~u.result.success
                 THEN Respond(r, "500", NoRow)
                 ELSE [req EXCEPT ![r] = [@ EXCEPT !.pc = "r_update", !.uploadResult = u.result]]
  /\ UNCHANGED <<rows, nextId>>

\* await query(UPDATE ... RETURNING *); updatedImage = rows[0]; then the old
\* blob is deleted when the loaded record had a public_id, else 200 at once.
\* A throwing UPDATE leaves the handler (nothing catches it).
ReplaceImageUpdate(r) ==
  /\ req[r].pc = "r_update"
  /\ \/ LET id == req[r].id
            after == UpdateImage(req[r].uploadResult.url, req[r].uploadResult.publicId, id)
            updatedImage == IF id \in DOMAIN after THEN after[id] ELSE NoRow
        IN
        /\ rows' = after
        /\ calls' = Log(r, Call("update", id, IF updatedImage = NoRow THEN "none" ELSE "ok"))
        /\ req' = IF req[r].galleryImage.public_id # NoHandle
                  THEN [req EXCEPT ![r] = [@ EXCEPT !.pc = "r_olddelete", !.data = updatedImage]]
                  ELSE Respond(r, "200", updatedImage)
     \/ \E e \in DbErrors :
        /\ calls' = Log(r, Call("update", req[r].id, e))
        /\ req' = Throw(r, e)
        /\ UNCHANGED rows
  /\ UNCHANGED <<blobs, nextId, nextHandle>>

\* await deleteImageFromCloudinary(galleryImage.public_id); 200 whatever it returns.
ReplaceImageOldDelete(r) ==
  /\ req[r].pc = "r_olddelete"
  /\ \E o \in DestroyOutcomes(req[r].galleryImage.public_id) :
       LET d == deleteImageFromCloudinary(req[r].galleryImage.public_id, o) IN
       /\ blobs' = d.blobs
       /\ calls' = Log(r, DestroyCall(req[r].galleryImage.public_id, d))
       /\ req' = IF d.threw THEN Throw(r, "cloudinary_error") ELSE Respond(r, "200", req[r].data)
  /\ UNCHANGED <<rows, nextId, nextHandle>>

----------------------------------------------------------------------------
\* DELETE /api/gallery/:id/remove

\* Request arrives; deleteFromCloudinary is true unless the query says 'false'.
RemoveBegin(r) ==
  /\ req[r].pc = "idle"
  /\ \E id \in RequestIds, deleteFromCloudinary \in BOOLEAN :
       req' = [req EXCEPT ![r] = [@ EXCEPT !.kind = "remove", !.id = id, !.pc = "d_load",
                                           !.deleteFromCloudinary = deleteFromCloudinary]]
  /\ UNCHANGED <<rows, blobs, nextId, nextHandle, calls>>

\* RemoveLoad without the galleryImage.public_id guard: the blob delete is
\* issued whenever deleteFromCloudinary is set.
RemoveLoad_NoPublicIdGuard(r) ==
  /\ req[r].pc = "d_load"
  /\ \/ LET galleryImage == getGalleryImageById(req[r].id) IN
        /\ calls' = Log(r, Call("load", req[r].id, IF galleryImage = NoRow THEN "none" ELSE "ok"))
        /\ req' = IF galleryImage = NoRow
                  THEN Respond(r, "404", NoRow)
                  ELSE [req EXCEPT ![r] = [@ EXCEPT !.galleryImage = galleryImage,
                          !.pc = IF req[r].deleteFromCloudinary THEN "d_blob" ELSE "d_row"]]
     \/ \E e \in DbErrors :
        /\ calls' = Log(r, Call("load", req[r].id, e))
        /\ req' = Throw(r, e)
  /\ UNCHANGED <<rows, blobs, nextId, nextHandle>>

\* await GalleryRepository.getGalleryImageById(id); 404 when absent.
RemoveLoad(r) ==
  /\ req[r].pc = "d_load"
  /\ \/ LET galleryImage == getGalleryImageById(req[r].id) IN
        /\ calls' = Log(r, Call("load", req[r].id, IF galleryImage = NoRow THEN "none" ELSE "ok"))
        /\ req' = IF galleryImage = NoRow
                  THEN Respond(r, "404", NoRow)
                  ELSE [req EXCEPT ![r] = [@ EXCEPT !.galleryImage = galleryImage,
                          !.pc = IF req[r].deleteFromCloudinary /\ galleryImage.public_id # NoHandle
                                 THEN "d_blob" ELSE "d_row"]]
     \/ \E e \in DbErrors :
        /\ calls' = Log(r, Call("load", req[r].id, e))
        /\ req' = Throw(r, e)
  /\ UNCHANGED <<rows, blobs, nextId, nextHandle>>

\* RemoveBlob that gives up when the blob delete returns false.
RemoveBlob_AbortsOnFailure(r) ==
  /\ req[r].pc = "d_blob"
  /\ \E o \in DestroyOutcomes(req[r].galleryImage.public_id) :
       LET d == deleteImageFromCloudinary(req[r].galleryImage.public_id, o) IN
       /\ blobs' = d.blobs
       /\ calls' = Log(r, DestroyCall(req[r].galleryImage.public_id, d))
       /\ req' = IF d.threw THEN Throw(r, "cloudinary_error")
                 ELSE IF ~d.ret THEN Respond(r, "500", NoRow)
                 ELSE [req EXCEPT ![r] = [@ EXCEPT !.pc = "d_row"]]
  /\ UNCHANGED <<rows, nextId, nextHandle>>

\* await deleteImageFromCloudinary(galleryImage.public_id); its result is ignored.
RemoveBlob(r) ==
  /\ req[r].pc = "d_blob"
  /\ \E o \in DestroyOutcomes(req[r].galleryImage.public_id) :
       LET d == deleteImageFromCloudinary(req[r].galleryImage.public_id, o) IN
       /\ blobs' = d.blobs
       /\ calls' = Log(r, DestroyCall(req[r].galleryImage.public_id, d))
       /\ req' = IF d.threw THEN Throw(r, "cloudinary_error")
                 ELSE [req EXCEPT ![r] = [@ EXCEPT !.pc = "d_row"]]
  /\ UNCHANGED <<rows, nextId, nextHandle>>

\* RemoveRow that never looks at what deleteGalleryImage returned.
RemoveRow_IgnoresResult(r) ==
  /\ req[r].pc = "d_row"
  /\ \/ LET deleted == req[r].id \in DOMAIN rows IN
        /\ rows' = DeleteRow(req[r].id)
        /\ calls' = Log(r, Call("delete", req[r].id, IF deleted THEN "ok" ELSE "none"))
        /\ req' = Respond(r, "200", NoRow)
     \/ \E e \in DbErrors :
        /\ calls' = Log(r, Call("delete", req[r].id, e))
        /\ req' = Throw(r, e)
        /\ UNCHANGED rows
  /\ UNCHANGED <<blobs, nextId, nextHandle>>

\* await GalleryRepository.deleteGalleryImage(id): rowCount > 0; 500 when not.
RemoveRow(r) ==
  /\ req[r].pc = "d_row"
  /\ \/ LET deleted == req[r].id \in DOMAIN rows IN
        /\ rows' = DeleteRow(req[r].id)
        /\ calls' = Log(r, Call("delete", req[r].id, IF deleted THEN "ok" ELSE "none"))
        /\ req' = IF ~deleted THEN Respond(r, "500", NoRow) ELSE Respond(r, "200", NoRow)
     \/ \E e \in DbErrors :
        /\ calls' = Log(r, Call("delete", req[r].id, e))
        /\ req' = Throw(r, e)
        /\ UNCHANGED rows
  /\ UNCHANGED <<blobs, nextId, nextHandle>>

----------------------------------------------------------------------------
\* GET /api/gallery/:id

\* Request arrives with the id of the path.
GalleryGetBegin(r) ==
  /\ req[r].pc = "idle"
  /\ \E id \in RequestIds :
       req' = [req EXCEPT ![r] = [@ EXCEPT !.kind = "get", !.id = id, !.pc = "g_load"]]
  /\ UNCHANGED <<rows, blobs, nextId, nextHandle, calls>>

\* await GalleryRepository.getGalleryImageById(id): 404 'Gallery image not
\* found' when absent, else the record.
GalleryGetLoad(r) ==
  /\ req[r].pc = "g_load"
  /\ \/ LET galleryImage == getGalleryImageById(req[r].id) IN
        /\ calls' = Log(r, Call("load", req[r].id, IF galleryImage = NoRow THEN "none" ELSE "ok"))
        /\ req' = IF galleryImage = NoRow
                  THEN Respond(r, "404", NoRow)
                  ELSE Respond(r, "200", galleryImage)
     \/ \E e \in DbErrors :
        /\ calls' = Log(r, Call("load", req[r].id, e))
        /\ req' = Throw(r, e)
  /\ UNCHANGED <<rows, blobs, nextId, nextHandle>>

Next ==
  \E r \in Reqs :
    \/ GalleryUploadBegin(r)
    \/ GalleryUploadCloud(r)
    \/ GalleryUploadInsert(r)
    \/ GalleryUploadCompensate(r)
    \/ ReplaceImageBegin(r)
    \/ ReplaceImageLoad(r)
    \/ ReplaceImageCloud(r)
    \/ ReplaceImageUpdate(r)
    \/ ReplaceImageOldDelete(r)
    \/ RemoveBegin(r)
    \/ RemoveLoad(r)
    \/ RemoveBlob(r)
    \/ RemoveRow(r)
    \/ GalleryGetBegin(r)
    \/ GalleryGetLoad(r)

Spec == Init /\ [][Next]_vars

----------------------------------------------------------------------------
\* Vocabulary of the properties

Done(r) == req[r].pc = "done"

\* The request answered 200 or 201.
Succeeded(r) == Done(r) /\ req[r].status \in {"200", "201"}

\* The request answered with an error status or its handler threw.
Failed(r) == Done(r) /\ req[r].status \notin {"200", "201"}

\* The k-th store call of request r is op with a result in results.
IsCall(r, k, op, results) ==
  /\ k <= Len(calls[r])
  /\ calls[r][k].op = op
  /\ calls[r][k].res \in results

\* Request r is the only one that has arrived so far.
RanAlone(r) == \A q \in Reqs \ {r} : req[q].pc = "idle"

\* Some row references public id h.
Referenced(h) == \E i \in DOMAIN rows : rows[i].public_id = h

\* An upload request whose upload succeeded and whose insert then threw.
InsertFailedAfterUpload(r) ==
  /\ req[r].kind = "upload"
  /\ IsCall(r, 1, "upload", {"ok"})
  /\ IsCall(r, 2, "insert", DbErrors)

----------------------------------------------------------------------------
\* C1 (as stated): when the upload succeeded and the insert failed, the
\* completed request has issued a delete for exactly the uploaded public id,
\* and the object store no longer contains that blob.
C1_BlobGoneAfterFailedInsert ==
  \A r \in Reqs :
    (InsertFailedAfterUpload(r) /\ Done(r)) =>
      /\ Len(calls[r]) = 3
      /\ calls[r][3].op = "destroy"
      /\ calls[r][3].arg = calls[r][1].arg
      /\ calls[r][1].arg \notin blobs

\* C1 (amended): when the upload succeeded and the insert failed, nothing is
\* reported before a delete for exactly the uploaded public id has been
\* issued right after the failed insert; the request then fails, and the blob
\* is gone from the object store whenever that delete succeeded.
C1_CompensationIssued ==
  \A r \in Reqs :
    InsertFailedAfterUpload(r) =>
      /\ (Len(calls[r]) = 2 => (~Done(r) /\ req[r].status = "none"))
      /\ Done(r) =>
           /\ Len(calls[r]) = 3
           /\ calls[r][3].op = "destroy"
           /\ calls[r][3].arg = calls[r][1].arg
           /\ Failed(r)
           /\ (calls[r][3].res = "ok" => calls[r][1].arg \notin blobs)

\* C1 witness: a failed insert whose compensating delete removed the blob.
C1_Witness ==
  \E r \in Reqs :
    /\ InsertFailedAfterUpload(r)
    /\ Done(r)
    /\ IsCall(r, 3, "destroy", {"ok"})
    /\ calls[r][1].arg \notin blobs

----------------------------------------------------------------------------
\* C2 (as stated): in every execution of a replace-image request the old
\* blob is deleted only after the row update that stored the new
\* image_url/public_id has succeeded: whenever the request has issued the
\* delete of the old blob, its calls before it are exactly load, upload and an
\* UPDATE that stored the new reference in the row, in this order.
C2_OldDeleteAfterUpdate ==
  \A r \in Reqs :
    req[r].kind = "replace" =>
      \A k \in 1..Len(calls[r]) :
        calls[r][k].op = "destroy" =>
          /\ k = 4
          /\ calls[r][k].arg = req[r].galleryImage.public_id
          /\ IsCall(r, 1, "load", {"ok"})
          /\ IsCall(r, 2, "upload", {"ok"})
          /\ IsCall(r, 3, "update", {"ok"})

----------------------------------------------------------------------------
\* C3 (as stated): when a replace-image request's upload succeeded and its
\* UPDATE failed, the completed request reports failure, the newly uploaded
\* blob has been deleted, and (no other request having run) the record and
\* its old blob are as they were loaded.
C3_UpdateFailureCompensated ==
  \A r \in Reqs :
    ( /\ req[r].kind = "replace"
      /\ IsCall(r, 2, "upload", {"ok"})
      /\ IsCall(r, 3, "update", DbErrors)
      /\ Done(r) ) =>
        /\ Failed(r)
        /\ calls[r][2].arg \notin blobs
        /\ RanAlone(r) =>
             /\ getGalleryImageById(req[r].id) = req[r].galleryImage
             /\ (req[r].galleryImage.public_id # NoHandle =>
                   req[r].galleryImage.public_id \in blobs)

----------------------------------------------------------------------------
\* Request r answers in this step.
Answers(r) == req[r].pc # "done" /\ req'[r].pc = "done"

\* C4: at the moment an upload request answers 201, the returned row carries
\* exactly the url and public id its own upload returned, that row is stored,
\* the blob exists in the object store, and the request has made exactly one
\* upload (one blob) and one insert (one row).
C4_CreatedRowMatchesUpload ==
  [][\A r \in Reqs :
       (Answers(r) /\ req'[r].kind = "upload" /\ req'[r].status = "201") =>
         LET row == req'[r].data IN
         /\ Len(calls'[r]) = 2
         /\ calls'[r][1] = Call("upload", row.public_id, "ok")
         /\ calls'[r][2] = Call("insert", row.id, "ok")
         /\ row.public_id # NoHandle
         /\ row.image_url = UrlOf(row.public_id)
         /\ row.public_id \in blobs'
         /\ ~Referenced(row.public_id)
         /\ row.id \notin DOMAIN rows
         /\ row.id \in DOMAIN rows' /\ rows'[row.id] = row
         /\ Cardinality({i \in DOMAIN rows' : rows'[i].public_id = row.public_id}) = 1
    ]_vars

\* C4 witness: an upload request answered 201 and its row and blob exist.
C4_Witness ==
  \E r \in Reqs :
    /\ req[r].kind = "upload"
    /\ req[r].status = "201"
    /\ req[r].data.id \in DOMAIN rows
    /\ rows[req[r].data.id] = req[r].data
    /\ req[r].data.public_id \in blobs

----------------------------------------------------------------------------
\* C5: when the upload step of an upload or replace-image request fails, the
\* request answers 500 in that very step; the request's calls are the load
\* (replace only) and the failed upload and nothing else, none of its steps
\* up to and including the failed upload changes a row or a blob, and a
\* request that has answered makes no further call.
C5_UploadFailureTouchesNothing ==
  [][\A r \in Reqs :
       /\ ( /\ Len(calls'[r]) = Len(calls[r]) + 1
            /\ calls'[r][Len(calls'[r])].op = "upload"
            /\ calls'[r][Len(calls'[r])].res = "failed" ) =>
              /\ req'[r].pc = "done"
              /\ req'[r].status = "500"
              /\ rows' = rows
              /\ blobs' = blobs
              /\ calls'[r] = IF req[r].kind = "upload"
                             THEN <<Call("upload", NoHandle, "failed")>>
                             ELSE <<Call("load", req[r].id, "ok"), Call("upload", NoHandle, "failed")>>
       /\ ( /\ req'[r] # req[r]
            /\ \/ calls'[r] = calls[r]
               \/ calls'[r][Len(calls'[r])].op = "load"
               \/ calls'[r][Len(calls'[r])].res = "failed" /\ calls'[r][Len(calls'[r])].op = "upload" ) =>
              (rows' = rows /\ blobs' = blobs)
       /\ Done(r) => (calls'[r] = calls[r] /\ req'[r] = req[r])
    ]_vars

\* C5 witness: a replace-image request whose upload failed has answered 500
\* and its record and old blob are still there.
C5_Witness ==
  \E r \in Reqs :
    /\ req[r].kind = "replace"
    /\ req[r].status = "500"
    /\ IsCall(r, 2, "upload", {"failed"})
    /\ getGalleryImageById(req[r].id) = req[r].galleryImage
    /\ req[r].galleryImage.public_id \in blobs

----------------------------------------------------------------------------
\* C6 (as stated): at the moment an upload or replace-image request reports
\* success, the blob it uploaded is referenced by a row or is no longer in the
\* object store.
C6_NoSuccessWithOrphan ==
  [][\A r \in Reqs :
       ( /\ Answers(r)
         /\ req'[r].kind \in {"upload", "replace"}
         /\ req'[r].status \in {"200", "201"} ) =>
           LET h == req'[r].uploadResult.publicId IN
           \/ \E i \in DOMAIN rows' : rows'[i].public_id = h
           \/ h \notin blobs'
    ]_vars

----------------------------------------------------------------------------
\* A remove request that loaded its record and went on to delete the blob.
RemoveWithBlob(r) ==
  /\ req[r].kind = "remove"
  /\ IsCall(r, 1, "load", {"ok"})
  /\ Len(calls[r]) >= 2
  /\ calls[r][2].op = "destroy"

\* C7: in a remove request with deleteFromCloudinary set, when the delete of
\* the record's blob failed the handler answers nothing before it has issued
\* the row delete, and when that row delete removed the row the answer is 200.
C7_RowDeletedDespiteBlobFailure ==
  \A r \in Reqs :
    (RemoveWithBlob(r) /\ calls[r][2].res = "failed") =>
      /\ req[r].deleteFromCloudinary
      /\ calls[r][2].arg = req[r].galleryImage.public_id
      /\ (Len(calls[r]) = 2 => (req[r].pc = "d_row" /\ req[r].status = "none"))
      /\ (Len(calls[r]) > 2 =>
            /\ Len(calls[r]) = 3
            /\ calls[r][3].op = "delete"
            /\ calls[r][3].arg = req[r].id
            /\ Done(r)
            /\ (calls[r][3].res = "ok" => req[r].status = "200"))

\* C7 witness: the blob delete failed, the row delete removed the row, 200.
C7_Witness ==
  \E r \in Reqs :
    /\ RemoveWithBlob(r)
    /\ calls[r][2].res = "failed"
    /\ IsCall(r, 3, "delete", {"ok"})
    /\ req[r].status = "200"
    /\ req[r].id \notin DOMAIN rows
    /\ req[r].galleryImage.public_id \in blobs

----------------------------------------------------------------------------
\* C8: a remove request answers 200 only if its own row delete removed the
\* row; a row delete that threw or matched no row makes the request fail,
\* also after the same request deleted the blob; and every blob delete of the
\* request comes before its row delete (which is its last call).
C8_SuccessOnlyIfRowDeleted ==
  \A r \in Reqs :
    (req[r].kind = "remove" /\ Done(r)) =>
      LET n == Len(calls[r]) IN
      /\ Succeeded(r) => (n >= 2 /\ calls[r][n] = Call("delete", req[r].id, "ok"))
      /\ \A k \in 1..n :
           calls[r][k].op = "delete" =>
             /\ k = n
             /\ (calls[r][k].res # "ok" => Failed(r))
           /\ \A j \in 1..n : calls[r][j].op = "destroy" => j < k

\* C8 witness: the request deleted the blob, its row delete then matched no
\* row (another request had removed it), and it answered 500.
C8_Witness ==
  \E r \in Reqs :
    /\ req[r].kind = "remove"
    /\ IsCall(r, 2, "destroy", {"ok"})
    /\ IsCall(r, 3, "delete", {"none"})
    /\ req[r].status = "500"

----------------------------------------------------------------------------
\* A remove request with deleteFromCloudinary set whose loaded record has no
\* asset reference.
RemoveWithoutAsset(r) ==
  /\ req[r].kind = "remove"
  /\ req[r].deleteFromCloudinary
  /\ req[r].galleryImage # NoRow
  /\ req[r].galleryImage.public_id = NoHandle

\* C9: a remove request with deleteFromCloudinary set on an existing record
\* without an asset reference makes no object-store call: its calls are the
\* load and the row delete of its own id.  Its row delete leaves every blob
\* and every other row unchanged, and removes its own row when it answers 200.
C9_NoAssetNoStoreCall ==
  [][\A r \in Reqs :
       (RemoveWithoutAsset(r) /\ calls'[r] # calls[r]) =>
         /\ req[r].pc = "d_row"
         /\ calls[r] = <<Call("load", req[r].id, "ok")>>
         /\ Len(calls'[r]) = 2
         /\ calls'[r][2].op = "delete"
         /\ calls'[r][2].arg = req[r].id
         /\ Answers(r)
         /\ blobs' = blobs
         /\ DOMAIN rows \ {req[r].id} = DOMAIN rows' \ {req[r].id}
         /\ \A i \in DOMAIN rows \ {req[r].id} : rows'[i] = rows[i]
         /\ (calls'[r][2].res = "ok") = (req[r].id \in DOMAIN rows /\ req[r].id \notin DOMAIN rows')
         /\ (req'[r].status = "200") = (calls'[r][2].res = "ok")
    ]_vars

\* C9 witness: such a request answered 200 after exactly a load and a row
\* delete, while another row and its blob are still in place.
C9_Witness ==
  \E r \in Reqs :
    /\ RemoveWithoutAsset(r)
    /\ req[r].status = "200"
    /\ calls[r] = <<Call("load", req[r].id, "ok"), Call("delete", req[r].id, "ok")>>
    /\ req[r].id \notin DOMAIN rows
    /\ \E i \in DOMAIN rows : rows[i].public_id \in blobs

----------------------------------------------------------------------------
\* C10: in an upload request whose insert failed, the answer does not depend
\* on the compensating delete: whether that delete succeeded or failed, the
\* handler throws exactly the error the insert threw, and the request never
\* answers with a success status.
C10_InsertErrorReported ==
  \A r \in Reqs :
    InsertFailedAfterUpload(r) =>
      /\ req[r].status \in {"none", "throw"}
      /\ Done(r) =>
           /\ IsCall(r, 3, "destroy", {"ok", "failed"})
           /\ req[r].status = "throw"
           /\ req[r].error = calls[r][2].res

\* C10 witness: the compensating delete failed and the request still threw
\* the insert error.
C10_Witness ==
  \E r \in Reqs :
    /\ InsertFailedAfterUpload(r)
    /\ IsCall(r, 3, "destroy", {"failed"})
    /\ req[r].status = "throw"
    /\ req[r].error = calls[r][2].res
    /\ calls[r][1].arg \in blobs

----------------------------------------------------------------------------
\* Request u uploaded a record and request d, a remove with
\* deleteFromCloudinary set, loaded that record as uploaded and completed
\* with every one of its store calls succeeding.
UploadedThenRemoved(u, d) ==
  /\ req[u].kind = "upload"
  /\ req[u].status = "201"
  /\ req[d].kind = "remove"
  /\ req[d].deleteFromCloudinary
  /\ req[d].id = req[u].data.id
  /\ req[d].galleryImage = req[u].data
  /\ Done(d)
  /\ calls[d] = <<Call("load", req[d].id, "ok"),
                  Call("destroy", req[u].data.public_id, "ok"),
                  Call("delete", req[d].id, "ok")>>

----------------------------------------------------------------------------
\* User accounts: users_cw and POST /api/users/:id/update.  Here rows is
\* users_cw, blobs the profile images in the object store.

\* Concurrent user requests.
NumUserReq == 1

UserReqs == 1..NumUserReq

\* profile_image_url of a user without a profile image (NULL).
NoUrl == 0

\* A profile image URL that does not point into the cyberwhisper folder.
ExternalUrl == 1

\* A body key the client did not send.
Absent == "absent"

NoUser == [id |-> 0, email |-> Absent, phone |-> Absent, profile_image_url |-> NoUrl]

\* extractPublicIdFromUrl: the public id when the URL matches
\* /\/cyberwhisper\/(.+)\./, else ''.
extractPublicIdFromUrl(url) ==
  IF url > UrlOf(NoHandle) THEN url - UrlOf(NoHandle) ELSE NoHandle

\* Request bodies: email and phone absent, taken by user 2, or new;
\* profile_image_url absent, the URL user 1 has, or the URL of blob 2.
UserBodies ==
  [email : {Absent, "u2@x", "new@x"}, phone : {Absent, "222"},
   profile_image_url : {NoUrl, UrlOf(1), UrlOf(2)}]

IdleUserReq ==
  [kind |-> "none", pc |-> "idle", id |-> 0, body |-> CHOOSE b \in UserBodies : TRUE,
   user |-> NoUser, error |-> "none", status |-> "none", data |-> NoUser]

\* users_cw at start-up: user 1 with a profile image in the object store or
\* without one, user 2 with an external image; blob 2 was stored by
\* POST /upload-profile and is not referenced yet.
InitUsers ==
  { [i \in {1, 2} |->
       IF i = 1
       THEN [id |-> 1, email |-> "u1@x", phone |-> "111", profile_image_url |-> url]
       ELSE [id |-> 2, email |-> "u2@x", phone |-> "222", profile_image_url |-> ExternalUrl]]
    : url \in {UrlOf(1), NoUrl} }

InitUser ==
  /\ rows \in InitUsers
  /\ blobs = {1, 2}
  /\ nextId = 3
  /\ nextHandle = 3
  /\ req = [r \in UserReqs |-> IdleUserReq]
  /\ calls = [r \in UserReqs |-> <<>>]

\* UserRepository.getUserById: rows[0] || null.
getUserById(id) == IF id \in DOMAIN rows THEN rows[id] ELSE NoUser

\* UserRepository.getUserByEmail: SELECT * FROM users_cw WHERE email = $1.
getUserByEmail(email) ==
  IF \E i \in DOMAIN rows : rows[i].email = email
  THEN rows[CHOOSE i \in DOMAIN rows : rows[i].email = email]
  ELSE NoUser

\* UserRepository.getUserByPhone: SELECT * FROM users_cw WHERE phone = $1.
getUserByPhone(phone) ==
  IF \E i \in DOMAIN rows : rows[i].phone = phone
  THEN rows[CHOOSE i \in DOMAIN rows : rows[i].phone = phone]
  ELSE NoUser

\* The keys of the update map with a value !== undefined.
DefinedKeys(body) ==
  {k \in {"email", "phone"} : body[k] # Absent}
    \cup (IF body.profile_image_url # NoUrl THEN {"profile_image_url"} ELSE {})

\* updateUser with no defined key reads the row instead of updating it.
updateUserIsRead(body) == DefinedKeys(body) = {}

\* users_cw after UPDATE users_cw SET <defined keys> WHERE id = $n.
updateUser(id, body) ==
  IF id \in DOMAIN rows
  THEN [rows EXCEPT ![id] =
          [k \in DOMAIN @ |-> IF k \in DefinedKeys(body) THEN body[k] ELSE @[k]]]
  ELSE rows

UserIds == 1..nextId

\* The public id the handler deletes before the update: that of the user's
\* current image when the body carries a profile_image_url, '' otherwise.
oldPublicId(body, user) ==
  IF body.profile_image_url # NoUrl /\ user.profile_image_url # NoUrl
  THEN extractPublicIdFromUrl(user.profile_image_url)
  ELSE NoHandle

\* Where the handler goes after the phone check, after the email check and
\* after loading the user.
AfterPhone(body, user) ==
  IF oldPublicId(body, user) # NoHandle THEN "u_olddelete" ELSE "u_update"

AfterEmail(body, user) ==
  IF body.phone # Absent /\ body.phone # user.phone THEN "u_phone" ELSE AfterPhone(body, user)

AfterLoad(body, user) ==
  IF body.email # Absent /\ body.email # user.email THEN "u_email" ELSE AfterEmail(body, user)

\* Request arrives; 400 'Invalid user ID' when the id is not a number.
UserUpdateBegin(r) ==
  /\ req[r].pc = "idle"
  /\ \E isNaN \in BOOLEAN, id \in UserIds, body \in UserBodies :
       req' = IF isNaN
              THEN [Respond(r, "400", NoUser) EXCEPT ![r].kind = "user_update"]
              ELSE [req EXCEPT ![r] = [@ EXCEPT !.kind = "user_update", !.id = id,
                                                !.body = body, !.pc = "u_load"]]
  /\ UNCHANGED <<rows, blobs, nextId, nextHandle, calls>>

\* await UserRepository.getUserById(id); 404 'User not found' when absent.
UserUpdateLoad(r) ==
  /\ req[r].pc = "u_load"
  /\ \/ LET user == getUserById(req[r].id) IN
        /\ calls' = Log(r, Call("load", req[r].id, IF user = NoUser THEN "none" ELSE "ok"))
        /\ req' = IF user = NoUser
                  THEN Respond(r, "404", NoUser)
                  ELSE [req EXCEPT ![r] = [@ EXCEPT !.user = user,
                                                    !.pc = AfterLoad(req[r].body, user)]]
     \/ \E e \in DbErrors :
        /\ calls' = Log(r, Call("load", req[r].id, e))
        /\ req' = Throw(r, e)
  /\ UNCHANGED <<rows, blobs, nextId, nextHandle>>

\* await UserRepository.getUserByEmail(req.body.email); 400 'Email already
\* registered' when some user has it.
UserUpdateEmail(r) ==
  /\ req[r].pc = "u_email"
  /\ \/ LET existingEmail == getUserByEmail(req[r].body.email) IN
        /\ calls' = Log(r, Call("by_email", existingEmail.id,
                                IF existingEmail = NoUser THEN "none" ELSE "ok"))
        /\ req' = IF existingEmail # NoUser
                  THEN Respond(r, "400", NoUser)
                  ELSE [req EXCEPT ![r] = [@ EXCEPT !.pc = AfterEmail(req[r].body, req[r].user)]]
     \/ \E e \in DbErrors :
        /\ calls' = Log(r, Call("by_email", 0, e))
        /\ req' = Throw(r, e)
  /\ UNCHANGED <<rows, blobs, nextId, nextHandle>>

\* await UserRepository.getUserByPhone(req.body.phone); 400 'Phone number
\* already registered' when some user has it.
UserUpdatePhone(r) ==
  /\ req[r].pc = "u_phone"
  /\ \/ LET existingPhone == getUserByPhone(req[r].body.phone) IN
        /\ calls' = Log(r, Call("by_phone", existingPhone.id,
                                IF existingPhone = NoUser THEN "none" ELSE "ok"))
        /\ req' = IF existingPhone # NoUser
                  THEN Respond(r, "400", NoUser)
                  ELSE [req EXCEPT ![r] = [@ EXCEPT !.pc = AfterPhone(req[r].body, req[r].user)]]
     \/ \E e \in DbErrors :
        /\ calls' = Log(r, Call("by_phone", 0, e))
        /\ req' = Throw(r, e)
  /\ UNCHANGED <<rows, blobs, nextId, nextHandle>>

\* await deleteImageFromCloudinary(oldPublicId); the result is ignored.
UserUpdateOldDelete(r) ==
  /\ req[r].pc = "u_olddelete"
  /\ LET publicId == oldPublicId(req[r].body, req[r].user) IN
     \E o \in DestroyOutcomes(publicId) :
       LET d == deleteImageFromCloudinary(publicId, o) IN
       /\ blobs' = d.blobs
       /\ calls' = Log(r, DestroyCall(publicId, d))
       /\ req' = IF d.threw THEN Throw(r, "cloudinary_error")
                 ELSE [req EXCEPT ![r] = [@ EXCEPT !.pc = "u_update"]]
  /\ UNCHANGED <<rows, nextId, nextHandle>>

\* await UserRepository.updateUser(id, req.body): the row as updated (or as
\* read, when the body has no defined key); 500 'Failed to update user' when
\* there is no row.
UserUpdateRow(r) ==
  /\ req[r].pc = "u_update"
  /\ \/ LET id == req[r].id
            after == IF updateUserIsRead(req[r].body) THEN rows ELSE updateUser(id, req[r].body)
            updatedUser == IF id \in DOMAIN after THEN after[id] ELSE NoUser
        IN
        /\ rows' = after
        /\ calls' = Log(r, Call(IF updateUserIsRead(req[r].body) THEN "load" ELSE "update", id,
                                IF updatedUser = NoUser THEN "none" ELSE "ok"))
        /\ req' = IF updatedUser = NoUser
                  THEN Respond(r, "500", NoUser)
                  ELSE Respond(r, "200", updatedUser)
     \/ \E e \in DbErrors :
        /\ calls' = Log(r, Call(IF updateUserIsRead(req[r].body) THEN "load" ELSE "update",
                                req[r].id, e))
        /\ req' = Throw(r, e)
        /\ UNCHANGED rows
  /\ UNCHANGED <<blobs, nextId, nextHandle>>

NextUser ==
  \E r \in UserReqs :
    \/ UserUpdateBegin(r)
    \/ UserUpdateLoad(r)
    \/ UserUpdateEmail(r)
    \/ UserUpdatePhone(r)
    \/ UserUpdateOldDelete(r)
    \/ UserUpdateRow(r)

SpecUser == InitUser /\ [][NextUser]_vars

\* A user update request that has loaded its user and changes
\* profile_image_url.
ChangesProfileImage(r) ==
  /\ req[r].kind = "user_update"
  /\ req[r].user # NoUser
  /\ req[r].body.profile_image_url \notin {NoUrl, req[r].user.profile_image_url}

\* C11: in a user update request that changes profile_image_url, the old
\* profile blob is deleted only after the UPDATE of the row has succeeded;
\* so when the row update of such a request failed (it threw, or returned no
\* row) and no other request ran, the blob of the image the user had is
\* still in the object store and the row still references it.
C11_OldProfileBlobKeptUntilUpdated ==
  \A r \in UserReqs :
    ChangesProfileImage(r) =>
      /\ \A k \in 1..Len(calls[r]) :
           (calls[r][k].op = "destroy" /\ calls[r][k].res = "ok") =>
             \E j \in 1..(k - 1) : calls[r][j] = Call("update", req[r].id, "ok")
      /\ \A k \in 1..Len(calls[r]) :
           (/\ calls[r][k].op = "update"
            /\ calls[r][k].res # "ok"
            /\ \A q \in UserReqs \ {r} : req[q].pc = "idle") =>
             /\ getUserById(req[r].id) = req[r].user
             /\ extractPublicIdFromUrl(req[r].user.profile_image_url) # NoHandle =>
                  extractPublicIdFromUrl(req[r].user.profile_image_url) \in blobs

----------------------------------------------------------------------------
\* Paginated list and search endpoints.  Here req is one request (its query
\* string and the handler's locals) and calls the calls of query(text,
\* params) the repository made for it, in order.

\* JavaScript values: t is the typeof, n the number (or 0/1 of a boolean),
\* s the characters of a string ("digits" for a string parseInt reads as n).
Undefined == [t |-> "undefined", n |-> 0, s |-> ""]

NaN == [t |-> "number", n |-> 0, s |-> "NaN"]

Num(n) == [t |-> "number", n |-> n, s |-> ""]

Str(s) == [t |-> "string", n |-> 0, s |-> s]

NumStr(n) == [t |-> "string", n |-> n, s |-> "digits"]

Bool(b) == [t |-> "boolean", n |-> IF b THEN 1 ELSE 0, s |-> ""]

\* ToBoolean: undefined, '', 0, NaN and false are falsy.
Truthy(v) ==
  CASE v.t = "undefined" -> FALSE
    [] v.t = "string" -> v.s # ""
    [] v.t = "number" -> v.n # 0 /\ v.s # "NaN"
    [] OTHER -> v.n = 1

\* parseInt(v): the number a numeric string denotes, NaN for anything else.
parseInt(v) == IF v.t = "string" /\ v.s = "digits" THEN Num(v.n) ELSE NaN

\* a || d
Or(a, d) == IF Truthy(a) THEN a ELSE d

\* Math.min(a, b) of two numbers.
MathMin(a, b) == IF a.n <= b.n THEN a ELSE b

\* `%${v}%`
Pattern(v) == Str("%" \o v.s \o "%")

\* One column test `column op $ph` of a statement.
Term(column, op, ph) == [column |-> column, op |-> op, ph |-> ph]

\* One element of the conditions array: its terms are joined by OR, and
\* grouped says whether the text puts them in parentheses.
Cond(grouped, terms) == [grouped |-> grouped, terms |-> terms]

\* A statement text: COUNT or SELECT over a table, the conditions joined by
\* AND after WHERE (none: no WHERE), and the placeholders of LIMIT and
\* OFFSET (0: the text has none).
Stmt(verb, table, where, limitPh, offsetPh) ==
  [verb |-> verb, table |-> table, where |-> where, limit |-> limitPh, offset |-> offsetPh]

\* query(text, params)
Query(text, params) == [text |-> text, params |-> params]

\* The builder's locals before any filter is looked at.
NoConditions == [conditions |-> <<>>, params |-> <<>>, paramIndex |-> 1]

\* conditions.push(`column op $${paramIndex++}`); params.push(value)
Push(b, column, op, value) ==
  [conditions |-> Append(b.conditions, Cond(FALSE, <<Term(column, op, b.paramIndex)>>)),
   params |-> Append(b.params, value),
   paramIndex |-> b.paramIndex + 1]

\* params.slice(0, end)
Slice(params, end) ==
  SubSeq(params, 1, IF end < 0 THEN 0 ELSE IF end > Len(params) THEN Len(params) ELSE end)

\* The COUNT call and the SELECT call of a getAll* builder whose COUNT gets
\* countParams.
CountAndSelect(table, b, countParams, limit, offset) ==
  << Query(Stmt("COUNT", table, b.conditions, 0, 0), countParams),
     Query(Stmt("SELECT", table, b.conditions, b.paramIndex, b.paramIndex + 1),
           b.params \o <<limit, offset>>) >>

\* The search condition of getAllGalleryImages: one parenthesised group over
\* title, context and alt_text with three consecutive placeholders, each
\* bound to its own copy of the pattern.
GallerySearch(b, search) ==
  [conditions |-> Append(b.conditions,
                    Cond(TRUE, <<Term("title", "ILIKE", b.paramIndex),
                                 Term("context", "ILIKE", b.paramIndex + 1),
                                 Term("alt_text", "ILIKE", b.paramIndex + 2)>>)),
   params |-> b.params \o <<Pattern(search), Pattern(search), Pattern(search)>>,
   paramIndex |-> b.paramIndex + 3]

\* getAllGalleryImages with paramIndex advanced by one after the search
\* condition instead of three.
getAllGalleryImages_SearchAdvancesByOne(limit, offset, filters) ==
  LET b1 == IF Truthy(filters.context)
            THEN Push(NoConditions, "context", "ILIKE", Pattern(filters.context))
            ELSE NoConditions
      b2 == IF filters.is_active # Undefined
            THEN Push(b1, "is_active", "=", filters.is_active) ELSE b1
      b3 == IF Truthy(filters.search)
            THEN [GallerySearch(b2, filters.search) EXCEPT !.paramIndex = b2.paramIndex + 1]
            ELSE b2
  IN CountAndSelect("gallery_cw", b3, b3.params, limit, offset)

\* GalleryRepository.getAllGalleryImages: COUNT gets params, SELECT gets
\* [...params, limit, offset].
getAllGalleryImages(limit, offset, filters) ==
  LET b1 == IF Truthy(filters.context)
            THEN Push(NoConditions, "context", "ILIKE", Pattern(filters.context))
            ELSE NoConditions
      b2 == IF filters.is_active # Undefined
            THEN Push(b1, "is_active", "=", filters.is_active) ELSE b1
      b3 == IF Truthy(filters.search) THEN GallerySearch(b2, filters.search) ELSE b2
  IN CountAndSelect("gallery_cw", b3, b3.params, limit, offset)

\* BlogRepository.getAllBlogs: COUNT gets params.slice(0, paramIndex - 1).
getAllBlogs(limit, offset, filters) ==
  LET b1 == IF filters.category_id # Undefined
            THEN Push(NoConditions, "category_id", "=", filters.category_id)
            ELSE NoConditions
      b2 == IF Truthy(filters.status) THEN Push(b1, "status", "=", filters.status) ELSE b1
      b3 == IF Truthy(filters.visibility)
            THEN Push(b2, "visibility", "=", filters.visibility) ELSE b2
      b4 == IF filters.is_popular # Undefined
            THEN Push(b3, "is_popular", "=", filters.is_popular) ELSE b3
  IN CountAndSelect("blogs_cw", b4, Slice(b4.params, b4.paramIndex - 1), limit, offset)

\* getAllUsers whose COUNT call is given allParams.
getAllUsers_CountGetsAllParams(limit, offset, filters) ==
  LET b1 == IF Truthy(filters.role)
            THEN Push(NoConditions, "role", "=", filters.role) ELSE NoConditions
      b2 == IF Truthy(filters.status) THEN Push(b1, "status", "=", filters.status) ELSE b1
      b3 == IF filters.is_instructor # Undefined
            THEN Push(b2, "is_instructor", "=", filters.is_instructor) ELSE b2
  IN CountAndSelect("users_cw", b3, b3.params \o <<limit, offset>>, limit, offset)

\* UserRepository.getAllUsers
getAllUsers(limit, offset, filters) ==
  LET b1 == IF Truthy(filters.role)
            THEN Push(NoConditions, "role", "=", filters.role) ELSE NoConditions
      b2 == IF Truthy(filters.status) THEN Push(b1, "status", "=", filters.status) ELSE b1
      b3 == IF filters.is_instructor # Undefined
            THEN Push(b2, "is_instructor", "=", filters.is_instructor) ELSE b2
  IN CountAndSelect("users_cw", b3, Slice(b3.params, b3.paramIndex - 1), limit, offset)

\* CourseRepository.getAllCourses
getAllCourses(limit, offset, filters) ==
  LET b1 == IF Truthy(filters.category_id)
            THEN Push(NoConditions, "category_id", "=", filters.category_id)
            ELSE NoConditions
      b2 == IF Truthy(filters.status) THEN Push(b1, "status", "=", filters.status) ELSE b1
      b3 == IF Truthy(filters.level) THEN Push(b2, "level", "=", filters.level) ELSE b2
  IN CountAndSelect("public.course", b3, Slice(b3.params, b3.paramIndex - 1), limit, offset)

\* BatchRepository.getAllBatches
getAllBatches(limit, offset, filters) ==
  LET b1 == IF Truthy(filters.course_id)
            THEN Push(NoConditions, "course_id", "=", filters.course_id)
            ELSE NoConditions
      b2 == IF Truthy(filters.status) THEN Push(b1, "status", "=", filters.status) ELSE b1
      b3 == IF Truthy(filters.instructor_id)
            THEN Push(b2, "instructor_id", "=", filters.instructor_id) ELSE b2
  IN CountAndSelect("batches_cw", b3, Slice(b3.params, b3.paramIndex - 1), limit, offset)

\* UserRepository.searchUsers: fixed texts, the pattern at $1 in all three
\* column matches and 'ACTIVE' at $2.
searchUsers(searchTerm, limit, offset) ==
  LET where == << Cond(TRUE, <<Term("first_name", "ILIKE", 1), Term("last_name", "ILIKE", 1),
                               Term("email", "ILIKE", 1)>>),
                  Cond(FALSE, <<Term("status", "=", 2)>>) >>
  IN << Query(Stmt("COUNT", "users_cw", where, 0, 0), <<Pattern(searchTerm), Str("ACTIVE")>>),
        Query(Stmt("SELECT", "users_cw", where, 3, 4),
              <<Pattern(searchTerm), Str("ACTIVE"), limit, offset>>) >>

\* BlogRepository.searchBlogs
searchBlogs(searchTerm, limit, offset) ==
  LET where == << Cond(TRUE, <<Term("title", "ILIKE", 1), Term("keywords", "ILIKE", 1)>>),
                  Cond(FALSE, <<Term("status", "=", 2)>>),
                  Cond(FALSE, <<Term("visibility", "=", 3)>>) >>
  IN << Query(Stmt("COUNT", "blogs_cw", where, 0, 0),
              <<Pattern(searchTerm), Str("PUBLISHED"), Str("PUBLIC")>>),
        Query(Stmt("SELECT", "blogs_cw", where, 4, 5),
              <<Pattern(searchTerm), Str("PUBLISHED"), Str("PUBLIC"), limit, offset>>) >>

\* BatchRepository.searchBatches: the two column matches are joined by OR
\* without parentheses.
searchBatches(searchTerm, limit, offset) ==
  LET where == << Cond(FALSE, <<Term("program_name", "ILIKE", 1),
                                Term("program_type", "ILIKE", 1)>>) >>
  IN << Query(Stmt("COUNT", "batches_cw", where, 0, 0), <<Pattern(searchTerm)>>),
        Query(Stmt("SELECT", "batches_cw", where, 2, 3),
              <<Pattern(searchTerm), limit, offset>>) >>

\* A query string in which no key is given.
NoQuery ==
  [limit |-> Undefined, offset |-> Undefined, page |-> Undefined, q |-> Undefined,
   context |-> Undefined, is_active |-> Undefined, search |-> Undefined,
   category_id |-> Undefined, status |-> Undefined, visibility |-> Undefined,
   is_popular |-> Undefined, role |-> Undefined, is_instructor |-> Undefined,
   level |-> Undefined, course_id |-> Undefined, instructor_id |-> Undefined]

\* Values a client sends for limit, offset, page, a flag, an id and q.
LimitInputs == {Undefined, Str("abc"), NumStr(-5), NumStr(0), NumStr(1), NumStr(100), NumStr(500)}

OffsetInputs == {Undefined, NumStr(-5), NumStr(0), NumStr(40)}

PageInputs == {Undefined, NumStr(-1), NumStr(0), NumStr(3)}

FlagInputs == {Undefined, Str("true"), Str("false")}

IdInputs == {Undefined, NumStr(0), NumStr(7)}

SearchTerms == {Undefined, Str("a"), Str("ctf")}

\* The query strings sent to each endpoint.
ListQueries ==
  [gallery |->
     {[NoQuery EXCEPT !.limit = l, !.offset = o, !.context = c, !.is_active = a, !.search = t]
        : l \in LimitInputs, o \in OffsetInputs, c \in {Undefined, Str("lab")},
          a \in FlagInputs, t \in {Undefined, Str("ctf")}},
   blogs |->
     {[NoQuery EXCEPT !.limit = l, !.page = g, !.category_id = c, !.status = st,
                      !.visibility = v, !.is_popular = a]
        : l \in LimitInputs, g \in PageInputs, c \in IdInputs,
          st \in {Undefined, Str("PUBLISHED")}, v \in {Undefined, Str("PUBLIC")},
          a \in FlagInputs},
   users |->
     {[NoQuery EXCEPT !.limit = l, !.page = g, !.role = ro, !.status = st, !.is_instructor = a]
        : l \in LimitInputs, g \in PageInputs, ro \in {Undefined, Str("ADMIN")},
          st \in {Undefined, Str("ACTIVE")}, a \in FlagInputs},
   courses |->
     {[NoQuery EXCEPT !.limit = l, !.page = g, !.category_id = c, !.status = st, !.level = lv]
        : l \in LimitInputs, g \in PageInputs, c \in IdInputs,
          st \in {Undefined, Str("active")}, lv \in {Undefined, Str("beginner")}},
   batches |->
     {[NoQuery EXCEPT !.limit = l, !.page = g, !.course_id = c, !.status = st,
                      !.instructor_id = i]
        : l \in LimitInputs, g \in PageInputs, c \in IdInputs,
          st \in {Undefined, Str("OPEN")}, i \in IdInputs},
   users_search |->
     {[NoQuery EXCEPT !.limit = l, !.page = g, !.q = t]
        : l \in LimitInputs, g \in PageInputs, t \in SearchTerms},
   blogs_search |->
     {[NoQuery EXCEPT !.limit = l, !.page = g, !.q = t]
        : l \in LimitInputs, g \in PageInputs, t \in SearchTerms},
   batches_search |->
     {[NoQuery EXCEPT !.limit = l, !.page = g, !.q = t]
        : l \in LimitInputs, g \in PageInputs, t \in SearchTerms}]

ListEndpoints == {"gallery", "blogs", "users", "courses", "batches"}

SearchEndpoints == {"users_search", "blogs_search", "batches_search"}

\* A request that has arrived and whose handler has not run yet.
ListRequests ==
  UNION {{[endpoint |-> e, query |-> q, pc |-> "idle", limit |-> Undefined,
           offset |-> Undefined, status |-> "none"] : q \in ListQueries[e]}
         : e \in ListEndpoints \cup SearchEndpoints}

InitList ==
  /\ req \in ListRequests
  /\ calls = <<>>
  /\ rows = <<>>
  /\ blobs = {}
  /\ nextId = 1
  /\ nextHandle = 1

\* res.json(...) after the repository made its calls q with limit and offset.
Listed(limit, offset, q) ==
  /\ req' = [req EXCEPT !.pc = "done", !.limit = limit, !.offset = offset, !.status = "200"]
  /\ calls' = q
  /\ UNCHANGED <<rows, blobs, nextId, nextHandle>>

\* const page = parseInt(page) || 1; const limit = parseInt(limit) || 10;
\* const offset = (page - 1) * limit
PageLimit(query) == Or(parseInt(query.limit), Num(10))

PageOffset(query) == Num((Or(parseInt(query.page), Num(1)).n - 1) * PageLimit(query).n)

\* req.query.x ? parseInt(req.query.x) : undefined
OptionalInt(v) == IF Truthy(v) THEN parseInt(v) ELSE Undefined

\* x === 'true' ? true : x === 'false' ? false : undefined
OptionalFlag(v) ==
  IF v = Str("true") THEN Bool(TRUE) ELSE IF v = Str("false") THEN Bool(FALSE) ELSE Undefined

\* GET /api/gallery
GalleryList ==
  /\ req.pc = "idle" /\ req.endpoint = "gallery"
  /\ LET limit == MathMin(Or(parseInt(req.query.limit), Num(20)), Num(100))
         offset == Or(parseInt(req.query.offset), Num(0))
         filters == [context |-> req.query.context,
                     is_active |-> IF Truthy(req.query.is_active)
                                   THEN Bool(req.query.is_active = Str("true"))
                                   ELSE Undefined,
                     search |-> req.query.search]
     IN Listed(limit, offset, getAllGalleryImages(limit, offset, filters))

\* GET /api/blogs
BlogList ==
  /\ req.pc = "idle" /\ req.endpoint = "blogs"
  /\ LET filters == [category_id |-> OptionalInt(req.query.category_id),
                     status |-> req.query.status,
                     visibility |-> req.query.visibility,
                     is_popular |-> OptionalFlag(req.query.is_popular)]
     IN Listed(PageLimit(req.query), PageOffset(req.query),
               getAllBlogs(PageLimit(req.query), PageOffset(req.query), filters))

\* GET /api/users
UserList ==
  /\ req.pc = "idle" /\ req.endpoint = "users"
  /\ LET filters == [role |-> req.query.role,
                     status |-> req.query.status,
                     is_instructor |-> OptionalFlag(req.query.is_instructor)]
     IN Listed(PageLimit(req.query), PageOffset(req.query),
               getAllUsers(PageLimit(req.query), PageOffset(req.query), filters))

\* GET /api/courses
CourseList ==
  /\ req.pc = "idle" /\ req.endpoint = "courses"
  /\ LET filters == [category_id |-> OptionalInt(req.query.category_id),
                     status |-> req.query.status,
                     level |-> req.query.level]
     IN Listed(PageLimit(req.query), PageOffset(req.query),
               getAllCourses(PageLimit(req.query), PageOffset(req.query), filters))

\* GET /api/batches
BatchList ==
  /\ req.pc = "idle" /\ req.endpoint = "batches"
  /\ LET filters == [course_id |-> OptionalInt(req.query.course_id),
                     status |-> req.query.status,
                     instructor_id |-> OptionalInt(req.query.instructor_id)]
     IN Listed(PageLimit(req.query), PageOffset(req.query),
               getAllBatches(PageLimit(req.query), PageOffset(req.query), filters))

\* if (!searchTerm || searchTerm.trim().length < 2): 400.  The terms sent
\* have no surrounding whitespace.
SearchTermRejected(searchTerm) == ~Truthy(searchTerm) \/ Len(searchTerm.s) < 2

\* The 400 'Search term must be at least 2 characters' answer.
Rejected ==
  /\ req' = [req EXCEPT !.pc = "done", !.status = "400"]
  /\ UNCHANGED <<rows, blobs, nextId, nextHandle, calls>>

\* GET /api/users/search
UserSearch ==
  /\ req.pc = "idle" /\ req.endpoint = "users_search"
  /\ IF SearchTermRejected(req.query.q)
     THEN Rejected
     ELSE Listed(PageLimit(req.query), PageOffset(req.query),
                 searchUsers(req.query.q, PageLimit(req.query), PageOffset(req.query)))

\* GET /api/blogs/search
BlogSearch ==
  /\ req.pc = "idle" /\ req.endpoint = "blogs_search"
  /\ IF SearchTermRejected(req.query.q)
     THEN Rejected
     ELSE Listed(PageLimit(req.query), PageOffset(req.query),
                 searchBlogs(req.query.q, PageLimit(req.query), PageOffset(req.query)))

\* GET /api/batches/search
BatchSearch ==
  /\ req.pc = "idle" /\ req.endpoint = "batches_search"
  /\ IF SearchTermRejected(req.query.q)
     THEN Rejected
     ELSE Listed(PageLimit(req.query), PageOffset(req.query),
                 searchBatches(req.query.q, PageLimit(req.query), PageOffset(req.query)))

NextList ==
  \/ GalleryList
  \/ BlogList
  \/ UserList
  \/ CourseList
  \/ BatchList
  \/ UserSearch
  \/ BlogSearch
  \/ BatchSearch

SpecList == InitList /\ [][NextList]_vars

\* The SELECT call of a served request and its limit and offset parameters.
SelectCall == calls[2]

LimitParam == SelectCall.params[SelectCall.text.limit]

OffsetParam == SelectCall.params[SelectCall.text.offset]

\* The request was served by one of the five list endpoints.
ListServed == req.pc = "done" /\ req.status = "200" /\ req.endpoint \in ListEndpoints

\* C13: for every list endpoint (gallery, blogs, users, courses, batches) and
\* every requested page size, the limit parameter passed to the SELECT
\* statement is a number in [1, 100].
C13_LimitClamped ==
  ListServed => (LimitParam.t = "number" /\ LimitParam.n >= 1 /\ LimitParam.n <= 100)

\* C14: for every list endpoint and every requested offset or page number,
\* the offset parameter passed to the SELECT statement is a number >= 0.
C14_OffsetNotNegative ==
  ListServed => (OffsetParam.t = "number" /\ OffsetParam.n >= 0)

----------------------------------------------------------------------------
\* The COUNT call of a served request.
CountCall == calls[1]

\* The placeholders of the terms in a list of terms, and of the conditions
\* of a WHERE clause, in the order of the text.
RECURSIVE TermPlaceholders(_)
TermPlaceholders(terms) ==
  IF terms = <<>> THEN <<>> ELSE <<Head(terms).ph>> \o TermPlaceholders(Tail(terms))

RECURSIVE WherePlaceholders(_)
WherePlaceholders(where) ==
  IF where = <<>> THEN <<>>
  ELSE TermPlaceholders(Head(where).terms) \o WherePlaceholders(Tail(where))

\* The value the request means for a term of the WHERE clause: what its
\* route made of the query key the column is filtered by.
Meant(cond, term) ==
  IF cond.grouped THEN Pattern(req.query.search)
  ELSE CASE term.column = "context" -> Pattern(req.query.context)
         [] term.column \in {"is_active", "is_popular", "is_instructor"} ->
              Bool(req.query[term.column] = Str("true"))
         [] term.column \in {"category_id", "course_id", "instructor_id"} ->
              parseInt(req.query[term.column])
         [] OTHER -> req.query[term.column]

\* C15: for every subset of present filters, each getAll* builder issues a
\* COUNT and a SELECT with the same WHERE clause on the same table; the
\* parameters of COUNT are exactly the parameters of SELECT without its two
\* trailing ones, in the same order; the two trailing ones are limit and
\* offset, and COUNT has neither of them.
C15_CountSharesPredicateParams ==
  ListServed =>
    LET n == Len(SelectCall.params) - 2 IN
    /\ Len(calls) = 2
    /\ CountCall.text.verb = "COUNT"
    /\ SelectCall.text.verb = "SELECT"
    /\ CountCall.text.table = SelectCall.text.table
    /\ CountCall.text.where = SelectCall.text.where
    /\ CountCall.text.limit = 0
    /\ CountCall.text.offset = 0
    /\ n >= 0
    /\ n = Len(WherePlaceholders(SelectCall.text.where))
    /\ Len(CountCall.params) = n
    /\ CountCall.params = SubSeq(SelectCall.params, 1, n)
    /\ SelectCall.params[n + 1] = req.limit
    /\ SelectCall.params[n + 2] = req.offset

\* C15 witness: a users list with role, status and is_instructor present.
C15_Witness ==
  /\ ListServed
  /\ req.endpoint = "users"
  /\ Len(CountCall.params) = 3
  /\ Len(SelectCall.params) = 5
  /\ CountCall.params = <<Str("ADMIN"), Str("ACTIVE"), Bool(FALSE)>>

\* C16: for every subset of present filters in each getAll* builder, the
\* placeholders of the WHERE clause are 1, 2, ..., n in the order of the
\* text, n is the number of predicate parameters, LIMIT uses $n+1 and OFFSET
\* $n+2, the SELECT parameter array has length n+2, and its element at the
\* position of each placeholder is the value meant for that placeholder.
C16_PlaceholdersNumberedInOrder ==
  ListServed =>
    LET where == SelectCall.text.where
        n == Len(WherePlaceholders(where))
    IN
    /\ WherePlaceholders(where) = [i \in 1..n |-> i]
    /\ Len(CountCall.params) = n
    /\ SelectCall.text.limit = n + 1
    /\ SelectCall.text.offset = n + 2
    /\ Len(SelectCall.params) = n + 2
    /\ \A c \in 1..Len(where) : \A k \in 1..Len(where[c].terms) :
         SelectCall.params[where[c].terms[k].ph] = Meant(where[c], where[c].terms[k])
    /\ SelectCall.params[n + 1] = req.limit
    /\ SelectCall.params[n + 2] = req.offset

\* C16 witness: a gallery list with context, is_active and search present.
C16_Witness ==
  /\ ListServed
  /\ req.endpoint = "gallery"
  /\ Len(SelectCall.text.where) = 3
  /\ WherePlaceholders(SelectCall.text.where) = <<1, 2, 3, 4, 5>>
  /\ SelectCall.text.limit = 6
  /\ Len(SelectCall.params) = 7

\* The request was served and carries a free-text search term.
SearchServed ==
  /\ req.pc = "done"
  /\ req.status = "200"
  /\ \/ req.endpoint \in SearchEndpoints
     \/ req.endpoint = "gallery" /\ Truthy(req.query.search)

\* The search term of the request as a pattern.
SearchPattern ==
  IF req.endpoint = "gallery" THEN Pattern(req.query.search) ELSE Pattern(req.query.q)

\* C17: every free-text search over several columns is one parenthesised
\* OR-group whose column matches all use the same placeholder, bound to the
\* pattern of the search term, and the pattern occupies exactly one slot of
\* the parameter array.
C17_SearchSharesOnePlaceholder ==
  SearchServed =>
    LET where == SelectCall.text.where
        groups == {c \in 1..Len(where) : Len(where[c].terms) > 1}
    IN
    /\ Cardinality(groups) = 1
    /\ \A c \in groups :
         /\ where[c].grouped
         /\ \A k \in 1..Len(where[c].terms) :
              /\ where[c].terms[k].ph = where[c].terms[1].ph
              /\ where[c].terms[k].op = "ILIKE"
         /\ SelectCall.params[where[c].terms[1].ph] = SearchPattern
    /\ Cardinality({i \in 1..Len(SelectCall.params) : SelectCall.params[i] = SearchPattern}) = 1

----------------------------------------------------------------------------
\* Repository update operations (gallery, blog, user, batch) and the gallery
\* metadata route.  Here rows is the table of the entity the request
\* updates, req the one request, calls its calls of query(text, params).

\* A key the update map does not have.
Missing == [t |-> "absent", n |-> 0, s |-> ""]

\* One [key, value] of Object.entries(data).
Entry(k, v) == [key |-> k, value |-> v]

\* data[key]: undefined when the map has no such key.
Get(data, key) ==
  IF \E i \in 1..Len(data) : data[i].key = key
  THEN data[CHOOSE i \in 1..Len(data) : data[i].key = key].value
  ELSE Undefined

\* The columns of each table that the update maps of the model can name.
Columns ==
  [gallery_cw |-> {"title", "context", "alt_text", "tags", "is_active", "sort_order", "image_url"},
   blogs_cw |-> {"title", "status"},
   users_cw |-> {"email", "status"},
   batches_cw |-> {"program_name", "status"}]

\* The table each repository updates.
TableOf ==
  [updateGalleryImage |-> "gallery_cw", updateBlog |-> "blogs_cw",
   updateUser |-> "users_cw", updateBatch |-> "batches_cw", gallery_route |-> "gallery_cw"]

\* The table at start-up: one record, with id 1.
InitTable(table) ==
  [i \in {1} |-> [id |-> 1, updated_at |-> "created",
                  cols |-> [c \in Columns[table] |-> Str("old")]]]

\* One assignment of a SET list: `column = $ph`, or `column = expr` when ph
\* is 0.
Assign(column, ph, expr) == [column |-> column, ph |-> ph, expr |-> expr]

\* UPDATE table SET <set> WHERE id = $whereId RETURNING *
UpdateStmt(table, set, whereId) ==
  [verb |-> "UPDATE", table |-> table, set |-> set, whereId |-> whereId]

\* SELECT * FROM table WHERE id = $1, the statement of get<Entity>ById.
SelectById(table, id) ==
  Query([verb |-> "SELECT", table |-> table, set |-> <<>>, whereId |-> 1], <<Num(id)>>)

\* The locals of an update builder: the SET list, the parameter array and
\* paramIndex.
Fields(fields, params, paramIndex) ==
  [fields |-> fields, params |-> params, paramIndex |-> paramIndex]

\* fields.push(`key = $${paramIndex++}`); params.push(value)
PushField(b, key, value) ==
  Fields(Append(b.fields, Assign(key, b.paramIndex, "")), Append(b.params, value),
         b.paramIndex + 1)

\* if (data.key !== undefined) { push }
PushIfDefined(b, data, key) ==
  IF Get(data, key) # Undefined THEN PushField(b, key, Get(data, key)) ELSE b

\* Object.entries(data).forEach(([key, value]) => { if (value !== undefined) push })
RECURSIVE PushEntries(_, _)
PushEntries(b, entries) ==
  IF entries = <<>> THEN b
  ELSE PushEntries(IF Head(entries).value # Undefined
                   THEN PushField(b, Head(entries).key, Head(entries).value)
                   ELSE b,
                   Tail(entries))

\* The six fields updateGalleryImage looks at, in the order of its tests.
GalleryFields == <<"title", "context", "alt_text", "tags", "is_active", "sort_order">>

\* The builder's locals after the six tests, starting from b.
RECURSIVE PushGalleryFields(_, _, _)
PushGalleryFields(b, data, keys) ==
  IF keys = <<>> THEN b
  ELSE PushGalleryFields(PushIfDefined(b, data, Head(keys)), data, Tail(keys))

\* updateGalleryImage that pushes id last while the text keeps WHERE id = $1.
updateGalleryImage_IdPushedLast(id, data) ==
  LET b == PushGalleryFields(Fields(<<>>, <<>>, 2), data, GalleryFields) IN
  IF Len(b.fields) = 0
  THEN SelectById("gallery_cw", id)
  ELSE Query(UpdateStmt("gallery_cw", Append(b.fields, Assign("updated_at", 0, "NOW()")), 1),
             Append(b.params, Num(id)))

\* GalleryRepository.updateGalleryImage: params starts as [id], paramIndex
\* as 2; the call it makes.
updateGalleryImage(id, data) ==
  LET b == PushGalleryFields(Fields(<<>>, <<Num(id)>>, 2), data, GalleryFields) IN
  IF Len(b.fields) = 0
  THEN SelectById("gallery_cw", id)
  ELSE Query(UpdateStmt("gallery_cw", Append(b.fields, Assign("updated_at", 0, "NOW()")), 1),
             b.params)

\* The call of an update operation built from Object.entries: the values,
\* then id at $paramIndex.
UpdateFromEntries(table, id, data, timestamp) ==
  LET b == PushEntries(Fields(<<>>, <<>>, 1), data) IN
  IF Len(b.fields) = 0
  THEN SelectById(table, id)
  ELSE Query(UpdateStmt(table, Append(b.fields, Assign("updated_at", 0, timestamp)),
                        b.paramIndex),
             Append(b.params, Num(id)))

\* BlogRepository.updateBlog
updateBlog(id, data) == UpdateFromEntries("blogs_cw", id, data, "CURRENT_TIMESTAMP")

\* UserRepository.updateUser, as a statement.
updateUserQuery(id, data) == UpdateFromEntries("users_cw", id, data, "CURRENT_TIMESTAMP")

\* updateBatch without the updates.length === 0 test.
updateBatch_NoEmptyCheck(id, data) ==
  LET b == PushEntries(Fields(<<>>, <<>>, 1), data) IN
  Query(UpdateStmt("batches_cw", Append(b.fields, Assign("updated_at", 0, "NOW()")),
                   b.paramIndex),
        Append(b.params, Num(id)))

\* BatchRepository.updateBatch
updateBatch(id, data) == UpdateFromEntries("batches_cw", id, data, "NOW()")

\* What the database does with a call: a statement naming a column the
\* table does not have is rejected; an UPDATE changes the row whose id is
\* bound to the WHERE placeholder, each assigned column to the value bound
\* to its placeholder and updated_at to the time of the statement; a SELECT
\* changes nothing.  result is result.rows.
Execute(call) ==
  LET text == call.text
      id == call.params[text.whereId].n
      hit == call.params[text.whereId].t = "number" /\ id \in DOMAIN rows
      assigned(c) == \E k \in 1..Len(text.set) : text.set[k].column = c /\ text.set[k].ph # 0
      valueOf(c) ==
        call.params[text.set[CHOOSE k \in 1..Len(text.set) :
                                text.set[k].column = c /\ text.set[k].ph # 0].ph]
      after == [rows EXCEPT ![id] =
                  [id |-> @.id,
                   updated_at |-> IF \E k \in 1..Len(text.set) : text.set[k].column = "updated_at"
                                  THEN "now" ELSE @.updated_at,
                   cols |-> [c \in DOMAIN @.cols |-> IF assigned(c) THEN valueOf(c) ELSE @.cols[c]]]]
  IN
  IF \E k \in 1..Len(text.set) : text.set[k].column \notin Columns[text.table] \cup {"updated_at"}
  THEN [error |-> "db_column", rows |-> rows, result |-> <<>>]
  ELSE IF ~hit THEN [error |-> "none", rows |-> rows, result |-> <<>>]
  ELSE IF text.verb = "UPDATE" THEN [error |-> "none", rows |-> after, result |-> <<after[id]>>]
  ELSE [error |-> "none", rows |-> rows, result |-> <<rows[id]>>]

\* Update maps built from a set of keys: every order of every subset, each
\* key with a value or with undefined.
EntryMaps(keys) ==
  UNION {{m \in [1..n -> {Entry(k, v) : k \in keys, v \in {Undefined, Str("new")}}] :
            \A i, j \in 1..n : i # j => m[i].key # m[j].key}
         : n \in 0..Cardinality(keys)}

Present(e) == e.value # Missing

\* Gallery update maps: each of the six fields and image_url missing or
\* given (title also given as undefined).  is_active and tags are strings,
\* as a form sends them.
GalleryMaps ==
  {SelectSeq(<<Entry("image_url", g), Entry("title", a), Entry("context", b),
               Entry("alt_text", c), Entry("tags", d), Entry("is_active", e),
               Entry("sort_order", f)>>, Present)
     : a \in {Missing, Undefined, Str("new")}, b \in {Missing, Str("lab")},
       c \in {Missing, Str("alt")}, d \in {Missing, Str("a,b")},
       e \in {Missing, Str("true")}, f \in {Missing, Num(3)},
       g \in {Missing, Str("http://x")}}

\* The update maps given to each operation; bogus is not a column.
UpdateMaps ==
  [updateGalleryImage |-> GalleryMaps,
   updateBlog |-> EntryMaps({"title", "status", "bogus"}),
   updateUser |-> EntryMaps({"email", "status", "bogus"}),
   updateBatch |-> EntryMaps({"program_name", "status", "bogus"}),
   gallery_route |-> {m \in GalleryMaps : \A i \in 1..Len(m) : m[i].value # Undefined}]

\* The ids asked for: the record of the table, and one that does not exist.
UpdateIds == {1, 2}

UpdateRequests ==
  UNION {{[op |-> o, id |-> i, data |-> m, pc |-> "idle", status |-> "none",
           error |-> "none", result |-> <<>>] : i \in UpdateIds, m \in UpdateMaps[o]}
         : o \in DOMAIN UpdateMaps}

InitUpdate ==
  /\ req \in UpdateRequests
  /\ rows = InitTable(TableOf[req.op])
  /\ calls = <<>>
  /\ blobs = {}
  /\ nextId = 2
  /\ nextHandle = 1

\* await query(...) of a repository operation called on its own: the
\* operation returns result.rows[0] or null, or the rejection reaches the
\* caller.
Run(call) ==
  /\ calls' = <<call>>
  /\ \/ LET x == Execute(call) IN
        /\ rows' = x.rows
        /\ req' = [req EXCEPT !.pc = "done", !.error = x.error, !.result = x.result,
                              !.status = IF x.error # "none" THEN "throw" ELSE "returned"]
     \/ \E e \in DbErrors :
        /\ rows' = rows
        /\ req' = [req EXCEPT !.pc = "done", !.error = e, !.status = "throw"]
  /\ UNCHANGED <<blobs, nextId, nextHandle>>

UpdateGalleryImage ==
  /\ req.pc = "idle" /\ req.op = "updateGalleryImage"
  /\ Run(updateGalleryImage(req.id, req.data))

UpdateBlog ==
  /\ req.pc = "idle" /\ req.op = "updateBlog"
  /\ Run(updateBlog(req.id, req.data))

UpdateUser ==
  /\ req.pc = "idle" /\ req.op = "updateUser"
  /\ Run(updateUserQuery(req.id, req.data))

UpdateBatch ==
  /\ req.pc = "idle" /\ req.op = "updateBatch"
  /\ Run(updateBatch(req.id, req.data))

\* The route's conversions of is_active ('true' -> true) and of tags (a
\* string is split at commas into an array).
ConvertBody(data) ==
  [i \in 1..Len(data) |->
     IF data[i].key = "is_active" /\ data[i].value.t = "string"
     THEN Entry("is_active", Bool(data[i].value = Str("true")))
     ELSE IF data[i].key = "tags" /\ Truthy(data[i].value) /\ data[i].value.t = "string"
     THEN Entry("tags", [t |-> "array", n |-> 0, s |-> data[i].value.s])
     ELSE data[i]]

\* POST /api/gallery/:id: 400 'No fields to update provided' for a body
\* without keys; else updateGalleryImage, 404 when it returns null, 200 with
\* the record otherwise.
GalleryUpdateRoute ==
  /\ req.pc = "idle" /\ req.op = "gallery_route"
  /\ IF Len(req.data) = 0
     THEN /\ req' = [req EXCEPT !.pc = "done", !.status = "400"]
          /\ UNCHANGED <<rows, calls>>
     ELSE LET call == updateGalleryImage(req.id, ConvertBody(req.data)) IN
          /\ calls' = <<call>>
          /\ \/ LET x == Execute(call) IN
                /\ rows' = x.rows
                /\ req' = [req EXCEPT !.pc = "done", !.error = x.error, !.result = x.result,
                             !.status = IF x.error # "none" THEN "throw"
                                        ELSE IF x.result = <<>> THEN "404" ELSE "200"]
             \/ \E e \in DbErrors :
                /\ rows' = rows
                /\ req' = [req EXCEPT !.pc = "done", !.error = e, !.status = "throw"]
  /\ UNCHANGED <<blobs, nextId, nextHandle>>

NextUpdate ==
  \/ UpdateGalleryImage
  \/ UpdateBlog
  \/ UpdateUser
  \/ UpdateBatch
  \/ GalleryUpdateRoute

SpecUpdate == InitUpdate /\ [][NextUpdate]_vars

----------------------------------------------------------------------------
\* The four repository update operations.
RepositoryUpdates == {"updateGalleryImage", "updateBlog", "updateUser", "updateBatch"}

\* The fields of the request's update map that have a defined value: for
\* gallery among the six fields of UpdateGalleryRequest, for the others
\* among all its keys.
DefinedFields ==
  IF req.op \in {"updateGalleryImage", "gallery_route"}
  THEN {GalleryFields[k] : k \in {j \in 1..Len(GalleryFields) :
                                    Get(req.data, GalleryFields[j]) # Undefined}}
  ELSE {req.data[i].key : i \in {j \in 1..Len(req.data) : req.data[j].value # Undefined}}

\* The record with the request's id as the table has it: [row] or [].
CurrentRecord == IF req.id \in DOMAIN rows THEN <<rows[req.id]>> ELSE <<>>

\* C18: a repository update operation given an update map without a defined
\* field issues no UPDATE: its only call is the read by id, no row changes
\* (updated_at included), and what it returns is the current record.
C18_EmptyUpdateReadsRecord ==
  [][(req.pc = "idle" /\ req.op \in RepositoryUpdates /\ DefinedFields = {}) =>
       /\ calls' = <<SelectById(TableOf[req.op], req.id)>>
       /\ calls'[1].text.verb # "UPDATE"
       /\ rows' = rows
       /\ req'.pc = "done"
       /\ req'.status \in {"returned", "throw"}
       /\ (req'.status = "returned") => (req'.result = CurrentRecord)
    ]_vars

\* C18 witness: updateBatch with two keys, both undefined, returned the
\* record untouched.
C18_Witness ==
  /\ req.pc = "done"
  /\ req.op = "updateBatch"
  /\ Len(req.data) = 2
  /\ DefinedFields = {}
  /\ req.status = "returned"
  /\ req.result = <<InitTable("batches_cw")[1]>>
  /\ rows = InitTable("batches_cw")
  /\ calls[1].text.verb = "SELECT"

\* C19: a repository update operation given an update map with at least one
\* defined field issues one UPDATE on its table whose SET list has exactly
\* one assignment for each defined field and none for another key, then
\* updated_at as the last assignment, without a placeholder; the value at
\* the position of each assignment's placeholder is the value of its field,
\* and the value at the position of the WHERE id placeholder is the id.
C19_UpdateAssignsDefinedFields ==
  (req.pc = "done" /\ req.op \in RepositoryUpdates /\ DefinedFields # {}) =>
    LET u == calls[1]
        set == u.text.set
        n == Len(set)
    IN
    /\ Len(calls) = 1
    /\ u.text.verb = "UPDATE"
    /\ u.text.table = TableOf[req.op]
    /\ n = Cardinality(DefinedFields) + 1
    /\ Len(u.params) = n
    /\ set[n].column = "updated_at"
    /\ set[n].ph = 0
    /\ set[n].expr \in {"NOW()", "CURRENT_TIMESTAMP"}
    /\ {set[k].column : k \in 1..(n - 1)} = DefinedFields
    /\ \A k \in 1..(n - 1) :
         /\ set[k].ph \in 1..n
         /\ set[k].ph # u.text.whereId
         /\ u.params[set[k].ph] = Get(req.data, set[k].column)
         /\ u.params[set[k].ph] # Undefined
    /\ u.text.whereId \in 1..n
    /\ u.params[u.text.whereId] = Num(req.id)

\* C19 witness: updateGalleryImage with title, tags and sort_order defined
\* has updated the record.
C19_Witness ==
  /\ req.pc = "done"
  /\ req.op = "updateGalleryImage"
  /\ req.status = "returned"
  /\ DefinedFields = {"title", "tags", "sort_order"}
  /\ Len(calls[1].text.set) = 4
  /\ rows[1].cols.title = Str("new")
  /\ rows[1].cols.sort_order = Num(3)
  /\ rows[1].cols.context = Str("old")
  /\ rows[1].updated_at = "now"

\* C20: a gallery metadata update request for an existing record whose body
\* has no usable field (no key at all, or only keys outside the six fields)
\* and whose read does not fail is answered 200 with the current record; it
\* issues no UPDATE and the record is unchanged.
C20_NoUsableFieldIsNotAnError ==
  (/\ req.op = "gallery_route"
   /\ req.pc = "done"
   /\ req.id \in DOMAIN rows
   /\ DefinedFields = {}
   /\ req.error = "none") =>
    /\ req.status = "200"
    /\ req.result = CurrentRecord
    /\ rows = InitTable("gallery_cw")
    /\ \A i \in 1..Len(calls) : calls[i].text.verb # "UPDATE"

----------------------------------------------------------------------------
\* C21: every column named in an assignment of a statement the update
\* operations build belongs to the fixed list of the entity's columns (or is
\* updated_at); a key of the update map outside that list never appears in
\* the statement text.
C21_OnlyAllowListedColumns ==
  \A i \in 1..Len(calls) : \A k \in 1..Len(calls[i].text.set) :
    calls[i].text.set[k].column \in Columns[calls[i].text.table] \cup {"updated_at"}

----------------------------------------------------------------------------
\* Slug assignment (config/cloudinary.ts). A string is the sequence of its
\* characters, each a one-character string.

UpperCase == <<"A", "B", "C", "D", "E", "F", "G", "H", "I", "J", "K", "L", "M",
               "N", "O", "P", "Q", "R", "S", "T", "U", "V", "W", "X", "Y", "Z">>

LowerCase == <<"a", "b", "c", "d", "e", "f", "g", "h", "i", "j", "k", "l", "m",
               "n", "o", "p", "q", "r", "s", "t", "u", "v", "w", "x", "y", "z">>

Digits == <<"0", "1", "2", "3", "4", "5", "6", "7", "8", "9">>

Range(s) == {s[i] : i \in 1..Len(s)}

\* \w of a regular expression: [A-Za-z0-9_].
WordChars == Range(UpperCase) \cup Range(LowerCase) \cup Range(Digits) \cup {"_"}

\* \s of a regular expression, and the characters trim() removes.
Whitespace == {" ", "\t", "\n"}

Hyphen == "-"

\* String.prototype.toLowerCase, character by character.
LowerChar(c) ==
  IF c \in Range(UpperCase)
  THEN LowerCase[CHOOSE i \in 1..Len(UpperCase) : UpperCase[i] = c]
  ELSE c

toLowerCase(s) == [i \in 1..Len(s) |-> LowerChar(s[i])]

RECURSIVE DropStart(_, _)
\* s without its longest prefix of characters of class.
DropStart(s, class) ==
  IF s # <<>> /\ Head(s) \in class THEN DropStart(Tail(s), class) ELSE s

RECURSIVE DropEnd(_, _)
\* s without its longest suffix of characters of class.
DropEnd(s, class) ==
  IF s # <<>> /\ s[Len(s)] \in class
  THEN DropEnd(SubSeq(s, 1, Len(s) - 1), class)
  ELSE s

\* String.prototype.trim.
trim(s) == DropEnd(DropStart(s, Whitespace), Whitespace)

\* replace(/[^\w\s-]/g, ''): only word characters, whitespace and hyphens stay.
IsSlugSource(c) == c \in WordChars \cup Whitespace \cup {Hyphen}

RemoveSpecial(s) == SelectSeq(s, IsSlugSource)

RECURSIVE ReplaceRuns(_, _, _)
\* replace(/[class]+/g, by): every maximal run of characters of class becomes
\* the string by.
ReplaceRuns(s, class, by) ==
  IF s = <<>> THEN <<>>
  ELSE IF Head(s) \in class
       THEN by \o ReplaceRuns(DropStart(s, class), class, by)
       ELSE <<Head(s)>> \o ReplaceRuns(Tail(s), class, by)

\* replace(/^-+|-+$/g, '').
StripHyphens(s) == DropEnd(DropStart(s, {Hyphen}), {Hyphen})

\* generateSlug without replace(/-+/g, '-'): hyphen runs are left as they are.
generateSlug_KeepsHyphenRuns(text) ==
  StripHyphens(ReplaceRuns(RemoveSpecial(trim(toLowerCase(text))), Whitespace, <<Hyphen>>))

\* generateSlug(text): the chain of toLowerCase, trim and four replaces.
generateSlug(text) ==
  StripHyphens(
    ReplaceRuns(
      ReplaceRuns(RemoveSpecial(trim(toLowerCase(text))), Whitespace, <<Hyphen>>),
      {Hyphen}, <<Hyphen>>))

\* The digits of Number.prototype.toString(36).
Base36Digits == Digits \o LowerCase

RECURSIVE toString36(_)
\* n.toString(36) of a non-negative integer.
toString36(n) ==
  IF n < Len(Base36Digits)
  THEN <<Base36Digits[n + 1]>>
  ELSE toString36(n \div Len(Base36Digits)) \o <<Base36Digits[(n % Len(Base36Digits)) + 1]>>

\* No existingSlug argument (undefined), or an empty one: falsy.
NoSlug == <<>>

\* generateUniqueSlug(text, existingSlug) called when Date.now() reads now:
\* the base slug when existingSlug is it, else the base slug, a hyphen and the
\* clock reading in base 36.
generateUniqueSlug(text, existingSlug, now) ==
  LET baseSlug == generateSlug(text) IN
  IF existingSlug # NoSlug /\ existingSlug = baseSlug
  THEN baseSlug
  ELSE baseSlug \o <<Hyphen>> \o toString36(now)

----------------------------------------------------------------------------
\* Calls of the slug functions on one text

\* Characters the texts are made of: a capital, the underscore, a blank, a
\* hyphen and a special character.
SlugAlphabet == {"A", "_", " ", "-", "+"}

MaxTextLen == 4

\* The title "Intro to C++ & Go!".
ExampleTitle ==
  <<"I", "n", "t", "r", "o", " ", "t", "o", " ", "C", "+", "+", " ", "&", " ",
    "G", "o", "!">>

\* A title with digits: "Web 2.0".
VersionTitle == <<"W", "e", "b", " ", "2", ".", "0">>

Texts ==
  UNION {[1..n -> SlugAlphabet] : n \in 0..MaxTextLen} \cup {ExampleTitle, VersionTitle}

\* Values Date.now() returns, chosen around a carry of the base-36 digits.
ClockReadings == {35, 36}

InitSlug ==
  /\ req \in [text : Texts]
  /\ calls = <<>>
  /\ rows = <<>>
  /\ blobs = {}
  /\ nextId = 0
  /\ nextHandle = 0

\* Date.now() does not run backwards between two calls.
LaterReadings ==
  IF calls = <<>> THEN ClockReadings
  ELSE {t \in ClockReadings : t >= calls[Len(calls)].now}

SlugCall(fn, existingSlug, now, result) ==
  [fn |-> fn, text |-> req.text, existingSlug |-> existingSlug, now |-> now,
   result |-> result]

\* The call log keeps the previous call and the new one.
Remember(c) == IF calls = <<>> THEN <<c>> ELSE <<calls[Len(calls)], c>>

\* generateSlug(text).
CallGenerateSlug ==
  /\ \E now \in LaterReadings :
       calls' = Remember(SlugCall("generateSlug", NoSlug, now, generateSlug(req.text)))
  /\ UNCHANGED <<rows, blobs, nextId, nextHandle, req>>

\* generateUniqueSlug(text) or generateUniqueSlug(text, existingSlug), the
\* existing slug being the base slug of the text or of another text.
CallGenerateUniqueSlug ==
  /\ \E now \in LaterReadings, existingSlug \in {NoSlug, generateSlug(req.text), <<"z">>} :
       calls' = Remember(SlugCall("generateUniqueSlug", existingSlug, now,
                                  generateUniqueSlug(req.text, existingSlug, now)))
  /\ UNCHANGED <<rows, blobs, nextId, nextHandle, req>>

NextSlug == CallGenerateSlug \/ CallGenerateUniqueSlug

SpecSlug == InitSlug /\ [][NextSlug]_vars

----------------------------------------------------------------------------
\* Properties of the slug functions

\* s ends with a hyphen and a non-empty suffix after the prefix base.
HasSuffix(s, base) ==
  /\ Len(s) > Len(base) + 1
  /\ SubSeq(s, 1, Len(base)) = base
  /\ s[Len(base) + 1] = Hyphen

\* C24: two calls of generateUniqueSlug with the same text and no existing
\* slug return different identifiers, whatever the two clock readings are
\* (equal readings included), each the base slug, a hyphen and a suffix.
C24_UniqueSlugsDiffer ==
  \A i \in 1..Len(calls) : \A j \in 1..Len(calls) :
    (/\ i < j
     /\ calls[i].fn = "generateUniqueSlug" /\ calls[j].fn = "generateUniqueSlug"
     /\ calls[i].existingSlug = NoSlug /\ calls[j].existingSlug = NoSlug)
    => /\ calls[i].result # calls[j].result
       /\ HasSuffix(calls[i].result, generateSlug(req.text))
       /\ HasSuffix(calls[j].result, generateSlug(req.text))

\* Characters that separate the words of a slug.
Separators == Whitespace \cup {Hyphen}

Kept(c) == c \in WordChars \/ c \in Separators

RECURSIVE FirstWord(_)
\* The longest prefix of s without a separator.
FirstWord(s) ==
  IF s = <<>> \/ Head(s) \in Separators THEN <<>>
  ELSE <<Head(s)>> \o FirstWord(Tail(s))

RECURSIVE Words(_)
\* The maximal separator-free pieces of s, in order.
Words(s) ==
  IF s = <<>> THEN <<>>
  ELSE IF Head(s) \in Separators THEN Words(Tail(s))
       ELSE <<FirstWord(s)>> \o Words(SubSeq(s, Len(FirstWord(s)) + 1, Len(s)))

RECURSIVE JoinWords(_)
\* The words joined by single hyphens.
JoinWords(ws) ==
  IF ws = <<>> THEN <<>>
  ELSE IF Len(ws) = 1 THEN ws[1]
       ELSE ws[1] \o <<Hyphen>> \o JoinWords(Tail(ws))

\* The slug of a text said directly: the words of the lowercased text, special
\* characters deleted, joined by single hyphens.
SlugOf(text) == JoinWords(Words(SelectSeq(toLowerCase(text), Kept)))

SlugChars == Range(LowerCase) \cup Range(Digits) \cup {"_", Hyphen}

WellFormedSlug(s) ==
  /\ Range(s) \subseteq SlugChars
  /\ \A i \in 1..(Len(s) - 1) : ~(s[i] = Hyphen /\ s[i + 1] = Hyphen)
  /\ s # <<>> => (s[1] # Hyphen /\ s[Len(s)] # Hyphen)

\* C25: generateSlug returns the lowercased, trimmed text with the special
\* characters removed, whitespace runs and hyphen runs turned into one hyphen
\* and no hyphen at either end; the result has only lowercase letters, digits,
\* underscores and hyphens, no two adjacent hyphens, no hyphen at an end, and
\* generateSlug leaves it unchanged; "Intro to C++ & Go!" gives intro-to-c-go.
C25_GenerateSlugNormalises ==
  \A i \in 1..Len(calls) :
    calls[i].fn = "generateSlug"
    => /\ calls[i].result = SlugOf(calls[i].text)
       /\ WellFormedSlug(calls[i].result)
       /\ generateSlug(calls[i].result) = calls[i].result
       /\ calls[i].text = ExampleTitle
          => calls[i].result = <<"i", "n", "t", "r", "o", "-", "t", "o", "-", "c", "-", "g", "o">>

\* generateSlug has run on a text with a capital, a blank next to a hyphen
\* between two words, and on its own result.
C25_Witness ==
  \E i \in 1..Len(calls) :
    /\ calls[i].fn = "generateSlug"
    /\ calls[i].text = <<"A", " ", "-", "_">>
    /\ calls[i].result = <<"a", "-", "_">>

----------------------------------------------------------------------------
\* Blog create and update (routes/blogRoutes.ts, repositories/blogRepository.ts).
\* rows is blogs_cw, id -> [id, title, slug]; the repository's statements
\* name no uniqueness rule for slug, and none of the migrations creates the
\* table, so an INSERT or UPDATE either takes effect or fails with a
\* database error.

\* null of getBlogById / getBlogBySlug.
NoBlog == [id |-> 0, title |-> <<>>, slug |-> NoSlug]

\* req.body.title of the requests.
BlogTitles == {<<"A">>}

\* req.body.slug of the requests, when one is supplied.
BlogSlugs == {<<"a">>, <<"b">>}

\* req.body of PUT /:id: the keys slug and title (NoSlug, <<>>: not sent) and
\* whether status, visibility and meta_robots pass the enum checks.
BlogUpdateBodies ==
  [slug : BlogSlugs \cup {NoSlug}, title : {<<>>, <<"B">>}, validEnums : BOOLEAN]

IdleBlogReq ==
  [kind |-> "none", pc |-> "idle", id |-> 0, title |-> <<>>, slug |-> NoSlug,
   validEnums |-> TRUE, finalSlug |-> NoSlug, blog |-> NoBlog, error |-> "none",
   status |-> "none", data |-> NoBlog]

\* blogs_cw at start-up: empty, or one blog whose slug is the base slug of
\* the title the requests use.
InitBlogs ==
  { [i \in {} |-> NoBlog],
    [i \in {1} |-> [id |-> 1, title |-> <<"A">>, slug |-> generateSlug(<<"A">>)]] }

InitBlog ==
  /\ rows \in InitBlogs
  /\ blobs = {}
  /\ nextId = Cardinality(DOMAIN rows) + 1
  /\ nextHandle = 0
  /\ req = [r \in Reqs |-> IdleBlogReq]
  /\ calls = [r \in Reqs |-> <<>>]

\* BlogRepository.getBlogById: rows[0] or null.
getBlogById(id) == IF id \in DOMAIN rows THEN rows[id] ELSE NoBlog

\* BlogRepository.getBlogBySlug: SELECT * FROM blogs_cw WHERE slug = $1,
\* rows[0] or null.
getBlogBySlug(slug) ==
  IF \E i \in DOMAIN rows : rows[i].slug = slug
  THEN rows[CHOOSE i \in DOMAIN rows : rows[i].slug = slug]
  ELSE NoBlog

\* BlogRepository.createBlog: INSERT INTO blogs_cw ... RETURNING *.
createBlog(title, slug) ==
  [i \in DOMAIN rows \cup {nextId} |->
     IF i = nextId THEN [id |-> nextId, title |-> title, slug |-> slug] ELSE rows[i]]

\* BlogRepository.updateBlog when some key is defined: UPDATE blogs_cw SET
\* every defined key WHERE id = $n.
UpdateBlogRow(id, body) ==
  [rows EXCEPT ![id] = [@ EXCEPT !.slug = IF body.slug # NoSlug THEN body.slug ELSE @,
                                 !.title = IF body.title # <<>> THEN body.title ELSE @]]

\* Object.entries(data) has no defined value: updateBlog returns getBlogById.
updateBlogIsRead(body) == body.slug = NoSlug /\ body.title = <<>>

BlogIds == 1..nextId

\* POST /: 400 when a required field is missing or an enum value is invalid;
\* finalSlug = slug || generateUniqueSlug(title), Date.now() reading now.
BlogCreateBegin(r) ==
  /\ req[r].pc = "idle"
  /\ \E invalid \in BOOLEAN, title \in BlogTitles, slug \in BlogSlugs \cup {NoSlug},
        now \in ClockReadings :
       req' = IF invalid
              THEN [Respond(r, "400", NoBlog) EXCEPT ![r].kind = "blog_create"]
              ELSE [req EXCEPT ![r] =
                      [@ EXCEPT !.kind = "blog_create", !.title = title, !.slug = slug,
                                !.finalSlug = IF slug # NoSlug THEN slug
                                              ELSE generateUniqueSlug(title, NoSlug, now),
                                !.pc = "c_slug"]]
  /\ UNCHANGED <<rows, blobs, nextId, nextHandle, calls>>

\* await BlogRepository.getBlogBySlug(finalSlug); 400 'Blog with this slug
\* already exists' when a row has it.
BlogCreateSlugCheck(r) ==
  /\ req[r].pc = "c_slug"
  /\ \/ LET existingBlog == getBlogBySlug(req[r].finalSlug) IN
        /\ calls' = Log(r, Call("by_slug", 0, IF existingBlog = NoBlog THEN "none" ELSE "ok"))
        /\ req' = IF existingBlog # NoBlog
                  THEN Respond(r, "400", NoBlog)
                  ELSE [req EXCEPT ![r].pc = "c_insert"]
     \/ \E e \in DbErrors :
        /\ calls' = Log(r, Call("by_slug", 0, e))
        /\ req' = Throw(r, e)
  /\ UNCHANGED <<rows, blobs, nextId, nextHandle>>

\* await BlogRepository.createBlog(blogData); 201 with the new row.
BlogCreateInsert(r) ==
  /\ req[r].pc = "c_insert"
  /\ \/ /\ rows' = createBlog(req[r].title, req[r].finalSlug)
        /\ nextId' = nextId + 1
        /\ calls' = Log(r, Call("insert", nextId, "ok"))
        /\ req' = Respond(r, "201", rows'[nextId])
     \/ \E e \in DbErrors :
        /\ calls' = Log(r, Call("insert", nextId, e))
        /\ req' = Throw(r, e)
        /\ UNCHANGED <<rows, nextId>>
  /\ UNCHANGED <<blobs, nextHandle>>

\* PUT /:id: 400 'Invalid blog ID' when parseInt gives NaN.
BlogUpdateBegin(r) ==
  /\ req[r].pc = "idle"
  /\ \E isNaN \in BOOLEAN, id \in BlogIds, body \in BlogUpdateBodies :
       req' = IF isNaN
              THEN [Respond(r, "400", NoBlog) EXCEPT ![r].kind = "blog_update"]
              ELSE [req EXCEPT ![r] =
                      [@ EXCEPT !.kind = "blog_update", !.id = id, !.slug = body.slug,
                                !.title = body.title, !.validEnums = body.validEnums,
                                !.pc = "b_load"]]
  /\ UNCHANGED <<rows, blobs, nextId, nextHandle, calls>>

\* The enum checks after the slug check: 400 when one fails, else on to
\* updateBlog.
AfterSlugCheck(r) ==
  IF req[r].validEnums THEN [req EXCEPT ![r].pc = "b_update"]
  ELSE Respond(r, "400", NoBlog)

\* await BlogRepository.getBlogById(id); 404 'Blog not found' when absent.
\* The slug is looked up only if (req.body.slug && req.body.slug !== blog.slug).
BlogUpdateLoad(r) ==
  /\ req[r].pc = "b_load"
  /\ \/ LET blog == getBlogById(req[r].id) IN
        /\ calls' = Log(r, Call("load", req[r].id, IF blog = NoBlog THEN "none" ELSE "ok"))
        /\ req' = IF blog = NoBlog
                  THEN Respond(r, "404", NoBlog)
                  ELSE IF req[r].slug # NoSlug /\ req[r].slug # blog.slug
                       THEN [req EXCEPT ![r] = [@ EXCEPT !.blog = blog, !.pc = "b_slug"]]
                       ELSE [AfterSlugCheck(r) EXCEPT ![r].blog = blog]
     \/ \E e \in DbErrors :
        /\ calls' = Log(r, Call("load", req[r].id, e))
        /\ req' = Throw(r, e)
  /\ UNCHANGED <<rows, blobs, nextId, nextHandle>>

\* await BlogRepository.getBlogBySlug(req.body.slug); 400 when a row has it.
BlogUpdateSlugCheck(r) ==
  /\ req[r].pc = "b_slug"
  /\ \/ LET existingBlog == getBlogBySlug(req[r].slug) IN
        /\ calls' = Log(r, Call("by_slug", 0, IF existingBlog = NoBlog THEN "none" ELSE "ok"))
        /\ req' = IF existingBlog # NoBlog
                  THEN Respond(r, "400", NoBlog)
                  ELSE AfterSlugCheck(r)
     \/ \E e \in DbErrors :
        /\ calls' = Log(r, Call("by_slug", 0, e))
        /\ req' = Throw(r, e)
  /\ UNCHANGED <<rows, blobs, nextId, nextHandle>>

\* await BlogRepository.updateBlog(id, req.body); 500 'Failed to update
\* blog' when it returns null, else 200 with the row.
BlogUpdateRow(r) ==
  /\ req[r].pc = "b_update"
  /\ \/ LET id == req[r].id
            found == id \in DOMAIN rows
        IN
        /\ rows' = IF found /\ ~updateBlogIsRead(req[r])
                   THEN UpdateBlogRow(id, req[r]) ELSE rows
        /\ calls' = Log(r, Call(IF updateBlogIsRead(req[r]) THEN "load" ELSE "update", id,
                                IF found THEN "ok" ELSE "none"))
        /\ req' = IF found THEN Respond(r, "200", rows'[id]) ELSE Respond(r, "500", NoBlog)
     \/ \E e \in DbErrors :
        /\ calls' = Log(r, Call("update", req[r].id, e))
        /\ req' = Throw(r, e)
        /\ UNCHANGED rows
  /\ UNCHANGED <<blobs, nextId, nextHandle>>

NextBlog ==
  \E r \in Reqs :
    \/ BlogCreateBegin(r)
    \/ BlogCreateSlugCheck(r)
    \/ BlogCreateInsert(r)
    \/ BlogUpdateBegin(r)
    \/ BlogUpdateLoad(r)
    \/ BlogUpdateSlugCheck(r)
    \/ BlogUpdateRow(r)

SpecBlog == InitBlog /\ [][NextBlog]_vars

----------------------------------------------------------------------------
\* Properties of blog slugs

NoTwoRowsShareSlug ==
  \A i \in DOMAIN rows : \A j \in DOMAIN rows : i # j => rows[i].slug # rows[j].slug

\* Row i gets its slug in this step: it is inserted or its slug changes.
SlugWritten(i) ==
  /\ i \in DOMAIN rows'
  /\ i \notin DOMAIN rows \/ rows'[i].slug # rows[i].slug

\* C22: under every interleaving of blog creates and updates no two rows of
\* blogs_cw have the same slug, and no step writes a slug that another row
\* already has (such a create or slug update is rejected and writes nothing).
C22_SlugsStayUnique ==
  /\ []NoTwoRowsShareSlug
  /\ [][\A i \in DOMAIN rows' :
          SlugWritten(i) => ~\E j \in DOMAIN rows : j # i /\ rows[j].slug = rows'[i].slug]_vars

\* Request r leaves the synchronous start of POST / with its finalSlug set.
CreateSlugChosen(r) ==
  req[r].pc = "idle" /\ req'[r].kind = "blog_create" /\ req'[r].pc = "c_slug"

\* C23: in blog creation a supplied slug is used unchanged; without one the
\* final slug is the base slug of the title when no row has that base slug,
\* and the base slug with a base-36 time suffix only when a row has it.
C23_SuffixOnlyOnCollision ==
  [][\A r \in Reqs :
       CreateSlugChosen(r)
       => LET baseSlug == generateSlug(req'[r].title)
              finalSlug == req'[r].finalSlug
          IN
          /\ req'[r].slug # NoSlug => finalSlug = req'[r].slug
          /\ (req'[r].slug = NoSlug /\ getBlogBySlug(baseSlug) = NoBlog)
             => finalSlug = baseSlug
          /\ (req'[r].slug = NoSlug /\ getBlogBySlug(baseSlug) # NoBlog)
             => \E now \in ClockReadings :
                  finalSlug = baseSlug \o <<Hyphen>> \o toString36(now)]_vars

----------------------------------------------------------------------------
\* User delete and skill delete (routes/userRoutes.ts, routes/skillRoutes.ts).
\* rows holds two tables: users_cw, id -> user row, and user_skills,
\* id -> [id, user_id, skill].

NoSkill == [id |-> 0, user_id |-> 0, skill |-> Absent]

IdleDeleteReq ==
  [kind |-> "none", pc |-> "idle", id |-> 0, user |-> NoUser, error |-> "none",
   status |-> "none", data |-> NoUser]

\* user_skills at start-up: empty, or one skill of user 1 and one of user 2
\* (added by POST /api/skills).
InitSkills ==
  { [i \in {} |-> NoSkill],
    [i \in {1, 2} |-> [id |-> i, user_id |-> i, skill |-> IF i = 1 THEN "ts" ELSE "go"]] }

InitUserDelete ==
  /\ rows \in [users_cw : InitUsers, user_skills : InitSkills]
  /\ blobs = {1}
  /\ nextId = 3
  /\ nextHandle = 2
  /\ req = [r \in Reqs |-> IdleDeleteReq]
  /\ calls = [r \in Reqs |-> <<>>]

\* UserRepository.getUserById on the users_cw table.
UserById(id) == IF id \in DOMAIN rows.users_cw THEN rows.users_cw[id] ELSE NoUser

\* SkillRepository.getSkillById: rows[0] or null.
getSkillById(id) == IF id \in DOMAIN rows.user_skills THEN rows.user_skills[id] ELSE NoSkill

\* UserRepository.deleteUser: DELETE FROM users_cw WHERE id = $1; no other
\* table is named.
deleteUser(id) ==
  [rows EXCEPT !.users_cw = [i \in DOMAIN rows.users_cw \ {id} |-> rows.users_cw[i]]]

\* SkillRepository.deleteSkill: DELETE FROM user_skills WHERE id = $1.
deleteSkill(id) ==
  [rows EXCEPT !.user_skills = [i \in DOMAIN rows.user_skills \ {id} |-> rows.user_skills[i]]]

\* SkillRepository.deleteUserSkills: DELETE FROM user_skills WHERE user_id = $1.
deleteUserSkills(user_id) ==
  [rows EXCEPT !.user_skills =
     [i \in {k \in DOMAIN rows.user_skills : rows.user_skills[k].user_id # user_id}
        |-> rows.user_skills[i]]]

DeleteIds == 1..nextId

\* DELETE /api/users/:id: 400 'Invalid user ID' when parseInt gives NaN.
UserDeleteBegin(r) ==
  /\ req[r].pc = "idle"
  /\ \E isNaN \in BOOLEAN, id \in DeleteIds :
       req' = IF isNaN
              THEN [Respond(r, "400", NoUser) EXCEPT ![r].kind = "user_delete"]
              ELSE [req EXCEPT ![r] = [@ EXCEPT !.kind = "user_delete", !.id = id,
                                                !.pc = "d_load"]]
  /\ UNCHANGED <<rows, blobs, nextId, nextHandle, calls>>

\* await UserRepository.getUserById(id); 404 'User not found' when absent.
\* The profile image is deleted only if the URL yields a public id.
UserDeleteLoad(r) ==
  /\ req[r].pc = "d_load"
  /\ \/ LET user == UserById(req[r].id) IN
        /\ calls' = Log(r, Call("load", req[r].id, IF user = NoUser THEN "none" ELSE "ok"))
        /\ req' = IF user = NoUser
                  THEN Respond(r, "404", NoUser)
                  ELSE [req EXCEPT ![r] =
                          [@ EXCEPT !.user = user,
                                    !.pc = IF /\ user.profile_image_url # NoUrl
                                              /\ extractPublicIdFromUrl(user.profile_image_url) # NoHandle
                                           THEN "d_image" ELSE "d_row"]]
     \/ \E e \in DbErrors :
        /\ calls' = Log(r, Call("load", req[r].id, e))
        /\ req' = Throw(r, e)
  /\ UNCHANGED <<rows, blobs, nextId, nextHandle>>

\* await deleteImageFromCloudinary(publicId); the result is ignored.
UserDeleteImage(r) ==
  /\ req[r].pc = "d_image"
  /\ LET publicId == extractPublicIdFromUrl(req[r].user.profile_image_url) IN
     \E o \in DestroyOutcomes(publicId) :
       LET d == deleteImageFromCloudinary(publicId, o) IN
       /\ blobs' = d.blobs
       /\ calls' = Log(r, DestroyCall(publicId, d))
       /\ req' = IF d.threw THEN Throw(r, "cloudinary_error")
                 ELSE [req EXCEPT ![r] = [@ EXCEPT !.pc = "d_row"]]
  /\ UNCHANGED <<rows, nextId, nextHandle>>

\* await UserRepository.deleteUser(id); 500 'Failed to delete user' when no
\* row was deleted, else 200 'User deleted successfully'.
UserDeleteRow(r) ==
  /\ req[r].pc = "d_row"
  /\ \/ LET deleted == req[r].id \in DOMAIN rows.users_cw IN
        /\ rows' = deleteUser(req[r].id)
        /\ calls' = Log(r, Call("delete", req[r].id, IF deleted THEN "ok" ELSE "none"))
        /\ req' = Respond(r, IF deleted THEN "200" ELSE "500", NoUser)
     \/ \E e \in DbErrors :
        /\ calls' = Log(r, Call("delete", req[r].id, e))
        /\ req' = Throw(r, e)
        /\ UNCHANGED rows
  /\ UNCHANGED <<blobs, nextId, nextHandle>>

\* DELETE /api/skills/:id: 400 'Invalid skill ID' when parseInt gives NaN.
SkillDeleteBegin(r) ==
  /\ req[r].pc = "idle"
  /\ \E isNaN \in BOOLEAN, id \in DeleteIds :
       req' = IF isNaN
              THEN [Respond(r, "400", NoUser) EXCEPT ![r].kind = "skill_delete"]
              ELSE [req EXCEPT ![r] = [@ EXCEPT !.kind = "skill_delete", !.id = id,
                                                !.pc = "k_load"]]
  /\ UNCHANGED <<rows, blobs, nextId, nextHandle, calls>>

\* await SkillRepository.getSkillById(id); 404 'Skill not found' when absent.
SkillDeleteLoad(r) ==
  /\ req[r].pc = "k_load"
  /\ \/ LET skill == getSkillById(req[r].id) IN
        /\ calls' = Log(r, Call("load", req[r].id, IF skill = NoSkill THEN "none" ELSE "ok"))
        /\ req' = IF skill = NoSkill
                  THEN Respond(r, "404", NoUser)
                  ELSE [req EXCEPT ![r].pc = "k_row"]
     \/ \E e \in DbErrors :
        /\ calls' = Log(r, Call("load", req[r].id, e))
        /\ req' = Throw(r, e)
  /\ UNCHANGED <<rows, blobs, nextId, nextHandle>>

\* await SkillRepository.deleteSkill(id); 500 'Failed to delete skill' when
\* no row was deleted, else 200.
SkillDeleteRow(r) ==
  /\ req[r].pc = "k_row"
  /\ \/ LET deleted == req[r].id \in DOMAIN rows.user_skills IN
        /\ rows' = deleteSkill(req[r].id)
        /\ calls' = Log(r, Call("delete", req[r].id, IF deleted THEN "ok" ELSE "none"))
        /\ req' = Respond(r, IF deleted THEN "200" ELSE "500", NoUser)
     \/ \E e \in DbErrors :
        /\ calls' = Log(r, Call("delete", req[r].id, e))
        /\ req' = Throw(r, e)
        /\ UNCHANGED rows
  /\ UNCHANGED <<blobs, nextId, nextHandle>>

NextUserDelete ==
  \E r \in Reqs :
    \/ UserDeleteBegin(r)
    \/ UserDeleteLoad(r)
    \/ UserDeleteImage(r)
    \/ UserDeleteRow(r)
    \/ SkillDeleteBegin(r)
    \/ SkillDeleteLoad(r)
    \/ SkillDeleteRow(r)

SpecUserDelete == InitUserDelete /\ [][NextUserDelete]_vars

\* C26: once a DELETE /api/users/:id request has answered 200, neither the
\* user row nor any skill row with that user_id is in the record store.
C26_UserDeleteRemovesSkills ==
  \A r \in Reqs :
    (req[r].kind = "user_delete" /\ req[r].pc = "done" /\ req[r].status = "200")
    => /\ req[r].id \notin DOMAIN rows.users_cw
       /\ \A k \in DOMAIN rows.user_skills : rows.user_skills[k].user_id # req[r].id


----------------------------------------------------------------------------
\* Gallery requests served one at a time: a request takes a step only while
\* no other request is in progress.

OthersIdleOrDone(r) == \A q \in Reqs \ {r} : req[q].pc \in {"idle", "done"}

NextSequential ==
  \E r \in Reqs :
    /\ OthersIdleOrDone(r)
    /\ \/ GalleryUploadBegin(r)
       \/ GalleryUploadCloud(r)
       \/ GalleryUploadInsert(r)
       \/ GalleryUploadCompensate(r)
       \/ ReplaceImageBegin(r)
       \/ ReplaceImageLoad(r)
       \/ ReplaceImageCloud(r)
       \/ ReplaceImageUpdate(r)
       \/ ReplaceImageOldDelete(r)
       \/ RemoveBegin(r)
       \/ RemoveLoad(r)
       \/ RemoveBlob(r)
       \/ RemoveRow(r)

SpecSequential == Init /\ [][NextSequential]_vars

\* No request is in progress.
Quiescent == \A r \in Reqs : req[r].pc \in {"idle", "done"}

\* No store call of any request failed: each took effect, or was a statement
\* that ran without error and matched no row.
NoCallFailed ==
  \A r \in Reqs : \A k \in 1..Len(calls[r]) : calls[r][k].res \in {"ok", "none"}

\* Every remove request so far asked for the blob to be deleted too.
RemovesDeleteBlobs == \A r \in Reqs : req[r].kind = "remove" => req[r].deleteFromCloudinary

\* Public ids of the blobs the requests have uploaded.
UploadedBlobs ==
  UNION { {calls[r][k].arg : k \in {j \in 1..Len(calls[r]) :
                                      calls[r][j].op = "upload" /\ calls[r][j].res = "ok"}}
          : r \in Reqs }

RowsReferenceBlobs ==
  \A i \in DOMAIN rows : rows[i].public_id # NoHandle => rows[i].public_id \in blobs

\* C27: when gallery create, replace-image and delete (deleteFromCloudinary
\* set) requests run one at a time and no store call fails, then whenever no
\* request is in progress every row's public_id names a blob in the object
\* store and every uploaded blob still in the store is referenced by exactly
\* one row.
C27_SequentialRunsStayConsistent ==
  (Quiescent /\ NoCallFailed /\ RemovesDeleteBlobs)
  => /\ RowsReferenceBlobs
     /\ \A h \in UploadedBlobs \cap blobs :
          Cardinality({i \in DOMAIN rows : rows[i].public_id = h}) = 1

\* An upload answered 201, then a replace of the created record's image
\* answered 200 after deleting the first blob; the second blob is stored.
C27_Witness ==
  /\ Quiescent /\ NoCallFailed /\ RemovesDeleteBlobs
  /\ \E r \in Reqs : \E q \in Reqs \ {r} :
       /\ req[r].kind = "upload" /\ req[r].status = "201"
       /\ req[q].kind = "replace" /\ req[q].status = "200"
       /\ req[q].id = req[r].data.id
       /\ IsCall(q, 4, "destroy", {"ok"})
       /\ req[q].uploadResult.publicId \in blobs

\* Every store call so far took effect.
AllCallsOk == \A r \in Reqs : \A k \in 1..Len(calls[r]) : calls[r][k].res = "ok"

\* The requests so far are replace-image and delete (deleteFromCloudinary
\* set) requests on one record, at least one of each.
ReplaceAndRemoveOnOneRecord ==
  /\ \A r \in Reqs : req[r].kind \in {"replace", "remove", "none"}
  /\ \A r \in Reqs : \A q \in Reqs :
       (req[r].kind # "none" /\ req[q].kind # "none") => req[r].id = req[q].id
  /\ \E r \in Reqs : req[r].kind = "replace"
  /\ \E r \in Reqs : req[r].kind = "remove"
  /\ RemovesDeleteBlobs

----------------------------------------------------------------------------
\* C29: a completed user update request has deleted no blob that the user's
\* row references afterwards; in particular a request whose
\* profile_image_url equals the stored one issues no object-store delete.
C29_ReferencedProfileBlobKept ==
  \A r \in UserReqs :
    (req[r].kind = "user_update" /\ req[r].user # NoUser)
    => /\ req[r].pc = "done"
          => \A k \in 1..Len(calls[r]) :
               (calls[r][k].op = "destroy" /\ calls[r][k].res = "ok")
               => extractPublicIdFromUrl(getUserById(req[r].id).profile_image_url)
                    # calls[r][k].arg
       /\ req[r].body.profile_image_url = req[r].user.profile_image_url
          => \A k \in 1..Len(calls[r]) : calls[r][k].op # "destroy"

----------------------------------------------------------------------------
\* Newsletter subscribe and unsubscribe, requests served one after another.
\* rows is newsletter_subscribers, id -> [id, email], email UNIQUE; an e-mail
\* address is the sequence of its characters.

NoSubscriber == [id |-> 0, email |-> <<>>]

\* req.body.email of the requests: missing, lower case, with a capital, and
\* one the format check rejects.
NewsletterEmails ==
  { <<>>, <<"a", "@", "b", ".", "c">>, <<"A", "@", "b", ".", "c">>, <<"a", "b">> }

IdleNewsletterReq ==
  [kind |-> "none", pc |-> "idle", email |-> <<>>, isAlreadySubscribed |-> FALSE,
   error |-> "none", status |-> "none", data |-> NoSubscriber]

\* newsletter_subscribers at start-up: empty, or one address subscribed
\* earlier (stored in lower case by subscribe).
InitSubscribers ==
  { [i \in {} |-> NoSubscriber],
    [i \in {1} |-> [id |-> 1, email |-> <<"a", "@", "b", ".", "c">>]] }

InitNewsletter ==
  /\ rows \in InitSubscribers
  /\ blobs = {}
  /\ nextId = Cardinality(DOMAIN rows) + 1
  /\ nextHandle = 0
  /\ req = [r \in Reqs |-> IdleNewsletterReq]
  /\ calls = [r \in Reqs |-> <<>>]

\* emailRegex.test(email), /^[^\s@]+@[^\s@]+\.[^\s@]+$/: an @ after at least
\* one character, later a dot with a character on each side, and no
\* whitespace and no other @ anywhere.
emailRegexTest(email) ==
  \E i \in 1..Len(email) : \E j \in 1..Len(email) :
    /\ email[i] = "@" /\ email[j] = "."
    /\ 1 < i /\ i + 1 < j /\ j < Len(email)
    /\ \A k \in 1..Len(email) : k # i => email[k] \notin Whitespace \cup {"@"}

\* NewsletterRepository.isSubscribed: SELECT id ... WHERE email = $1.
isSubscribed(email) == \E i \in DOMAIN rows : rows[i].email = email

\* NewsletterRepository.subscribe: INSERT ... ON CONFLICT (email) DO UPDATE
\* SET created_at ...: a new row unless one has this email.
subscribe(email) ==
  IF isSubscribed(email) THEN rows
  ELSE [i \in DOMAIN rows \cup {nextId} |->
          IF i = nextId THEN [id |-> nextId, email |-> email] ELSE rows[i]]

\* The row subscribe returns (RETURNING id, email, created_at).
Subscriber(table, email) == table[CHOOSE i \in DOMAIN table : table[i].email = email]

\* NewsletterRepository.unsubscribe: DELETE ... WHERE email = $1.
unsubscribe(email) == [i \in {k \in DOMAIN rows : rows[k].email # email} |-> rows[i]]

\* POST /subscribe: 400 'Email is required' or 'Invalid email format'.
SubscribeBegin(r) ==
  /\ req[r].pc = "idle"
  /\ \E email \in NewsletterEmails :
       req' = IF email = <<>> \/ ~emailRegexTest(email)
              THEN [Respond(r, "400", NoSubscriber) EXCEPT ![r].kind = "subscribe",
                                                           ![r].email = email]
              ELSE [req EXCEPT ![r] = [@ EXCEPT !.kind = "subscribe", !.email = email,
                                                !.pc = "n_check"]]
  /\ UNCHANGED <<rows, blobs, nextId, nextHandle, calls>>

\* await NewsletterRepository.isSubscribed(email); an error is caught: 500.
SubscribeCheck(r) ==
  /\ req[r].pc = "n_check"
  /\ \/ /\ calls' = Log(r, Call("is_subscribed", 0, IF isSubscribed(req[r].email) THEN "ok" ELSE "none"))
        /\ req' = [req EXCEPT ![r] = [@ EXCEPT !.isAlreadySubscribed = isSubscribed(req[r].email),
                                               !.pc = "n_insert"]]
     \/ \E e \in DbErrors :
        /\ calls' = Log(r, Call("is_subscribed", 0, e))
        /\ req' = Respond(r, "500", NoSubscriber)
  /\ UNCHANGED <<rows, blobs, nextId, nextHandle>>

\* await NewsletterRepository.subscribe({ email: email.toLowerCase() });
\* 200 when isAlreadySubscribed, else 201; an error is caught: 500. The
\* sequence behind id advances on every INSERT attempt.
SubscribeInsert(r) ==
  /\ req[r].pc = "n_insert"
  /\ \/ /\ rows' = subscribe(toLowerCase(req[r].email))
        /\ nextId' = nextId + 1
        /\ calls' = Log(r, Call("subscribe", nextId, "ok"))
        /\ req' = Respond(r, IF req[r].isAlreadySubscribed THEN "200" ELSE "201",
                          Subscriber(rows', toLowerCase(req[r].email)))
     \/ \E e \in DbErrors :
        /\ calls' = Log(r, Call("subscribe", nextId, e))
        /\ req' = Respond(r, "500", NoSubscriber)
        /\ UNCHANGED <<rows, nextId>>
  /\ UNCHANGED <<blobs, nextHandle>>

\* DELETE /unsubscribe: 400 'Email is required'.
UnsubscribeBegin(r) ==
  /\ req[r].pc = "idle"
  /\ \E email \in NewsletterEmails :
       req' = IF email = <<>>
              THEN [Respond(r, "400", NoSubscriber) EXCEPT ![r].kind = "unsubscribe"]
              ELSE [req EXCEPT ![r] = [@ EXCEPT !.kind = "unsubscribe", !.email = email,
                                                !.pc = "n_delete"]]
  /\ UNCHANGED <<rows, blobs, nextId, nextHandle, calls>>

\* await NewsletterRepository.unsubscribe(email): 200 when a row was deleted,
\* 404 'Email not found in newsletter subscribers' when none, 500 on an error.
UnsubscribeRow(r) ==
  /\ req[r].pc = "n_delete"
  /\ \/ /\ rows' = unsubscribe(req[r].email)
        /\ calls' = Log(r, Call("unsubscribe", 0, IF rows' # rows THEN "ok" ELSE "none"))
        /\ req' = Respond(r, IF rows' # rows THEN "200" ELSE "404", NoSubscriber)
     \/ \E e \in DbErrors :
        /\ calls' = Log(r, Call("unsubscribe", 0, e))
        /\ req' = Respond(r, "500", NoSubscriber)
        /\ UNCHANGED rows
  /\ UNCHANGED <<blobs, nextId, nextHandle>>

NextNewsletter ==
  \E r \in Reqs :
    /\ OthersIdleOrDone(r)
    /\ \/ SubscribeBegin(r)
       \/ SubscribeCheck(r)
       \/ SubscribeInsert(r)
       \/ UnsubscribeBegin(r)
       \/ UnsubscribeRow(r)

SpecNewsletter == InitNewsletter /\ [][NextNewsletter]_vars

\* C30: when a subscribe request for a string e has succeeded and an
\* unsubscribe request for the same string e then runs its statement without
\* a database error, it answers 200 and no row for that address (stored in
\* lower case) remains.
C30_UnsubscribeUndoesSubscribe ==
  [][\A r \in Reqs : \A q \in Reqs :
       (/\ req[r].kind = "subscribe" /\ Succeeded(r)
        /\ req[q].kind = "unsubscribe" /\ Answers(q)
        /\ req[q].email = req[r].email
        /\ req'[q].status # "500")
       => /\ req'[q].status = "200"
          /\ ~\E i \in DOMAIN rows' : rows'[i].email = toLowerCase(req[r].email)]_vars
====
